---- MODULE Spec2Model ----
(***************************************************************************)
(* Model of the re-dashboard backend (src/src/backend/main.py and          *)
(* src/src/backend/database.py): the WebSocket session state machine and   *)
(* its connection registry, the live/historical window resolution, the     *)
(* break calendar and the per-model metrics computation.                   *)
(*                                                                         *)
(* Instants are integer seconds on one fixed UTC+3 time line (second 0 is  *)
(* a local midnight).  Ratios are reduced fractions [n, d].                *)
(***************************************************************************)
EXTENDS Integers, Sequences, FiniteSets, TLC

(***************************************************************************)
(* Bounds of the model.                                                    *)
(***************************************************************************)
MaxSessions == 2
MaxWindows == 2
MaxRows == 2
MaxDays == 2
MaxUnits == 2

(***************************************************************************)
(* Program constants.                                                      *)
(***************************************************************************)
PUSH_INTERVAL == 12
FiveMinutes == 300
SecondsPerHour == 3600
SecondsPerDay == 86400

Sessions == 1..MaxSessions
Kinds == {"standard", "hourly"}
Windows == 1..MaxWindows

Absent == "absent"
\* a message without a unit name
NoUnit == 0
None == 0 - 999999

VARIABLES
    active_connections,  \* ConnectionManager.active_connections: kind -> list
    pc,                  \* control point of each session's endpoint coroutine
    kind,                \* the endpoint (channel) a session was opened on
    unit_name,           \* the path parameter unit_name of the session's endpoint
    conn,                \* websocket.client_state.name as the session reads it
    params,              \* the locals start_time/end_time (window), working_mode
    qry,                 \* arguments of the main query of the current iteration
    qunit,               \* the unit that query is issued for
    waited,              \* seconds spent waiting since the last outbound push
    last,                \* the event (and inbound message) of the session's last step
    out                  \* outbound messages sent by the session's last step

sessionVars ==
    <<active_connections, pc, kind, unit_name, conn, params, qry, qunit, waited,
      last, out>>

VARIABLES
    stage,   \* how far the request of the metrics path has got
    req,     \* start_time, end_time, current_time, working_mode and the rows
             \* the query returns
    res      \* what get_production_data returned and what its caller built

VARIABLES
    brk,     \* a call of calculate_break_time: its arguments and its result
    hrs,     \* an hourly breakdown in progress: its arguments, the bucket
             \* cursor, the buckets built so far and the totals
    rpt      \* a multi-unit report in progress: the unit list, the loop
             \* position, unit_data and the running sums

metricVars == <<stage, req, res, brk, hrs, rpt>>

VARIABLES
    drive    \* the two channels side by side: the input the standard session
             \* has just consumed and the hourly session consumes next

NoParams == [window |-> 0, mode |-> "none"]
Snapshot(p) == [type |-> "snapshot", window |-> p.window, mode |-> p.mode]
ErrorMsg == [type |-> "error", window |-> 0, mode |-> "none"]
AckMsg == [type |-> "ack", window |-> 0, mode |-> "none"]
NoMsg == [type |-> "none", window |-> 0, mode |-> "none", unit |-> NoUnit]
Event(e, m) == [ev |-> e, msg |-> m]

Range(seq) == {seq[i] : i \in 1..Len(seq)}

(***************************************************************************)
(* ConnectionManager                                                       *)
(***************************************************************************)
\* list.remove(x): drops the first element equal to x
RECURSIVE ListRemove(_, _)
ListRemove(seq, x) ==
    IF seq = <<>> THEN <<>>
    ELSE IF Head(seq) = x THEN Tail(seq)
    ELSE <<Head(seq)>> \o ListRemove(Tail(seq), x)

\* a plausible slip: remove the head of the list whatever it is
MutDisconnectHead(reg, ws, k) ==
    IF reg[k] # <<>> THEN [reg EXCEPT ![k] = Tail(@)] ELSE reg

connect(reg, ws, k) == [reg EXCEPT ![k] = Append(@, ws)]

disconnect(reg, ws, k) ==
    IF ws \in Range(reg[k]) THEN [reg EXCEPT ![k] = ListRemove(@, ws)] ELSE reg

(***************************************************************************)
(* Inbound messages.  A parameter message carries a window and, maybe, a   *)
(* working mode and a unit name; everything that json.loads or             *)
(* _parse_ws_params rejects is one "bad" message.                          *)
(***************************************************************************)
ParamMsgFor(w, m, u) == [type |-> "params", window |-> w, mode |-> m, unit |-> u]
ParamMsg(w, m) == ParamMsgFor(w, m, NoUnit)
HeartbeatMsg == [type |-> "heartbeat", window |-> 0, mode |-> Absent, unit |-> NoUnit]
BadMsg == [type |-> "bad", window |-> 0, mode |-> Absent, unit |-> NoUnit]

\* a plausible slip: the working mode of the message is not read
MutParseIgnoresMode(msg) == [window |-> msg.window, mode |-> "mode1"]

\* params.get('working_mode', 'mode1'); the window is converted, not changed
_parse_ws_params(msg) ==
    [window |-> msg.window,
     mode |-> IF msg.mode = Absent THEN "mode1" ELSE msg.mode]

(***************************************************************************)
(* database.py: break calendar                                             *)
(***************************************************************************)
Max(a, b) == IF a >= b THEN a ELSE b
Min(a, b) == IF a <= b THEN a ELSE b
HM(h, m) == h * SecondsPerHour + m * 60

SHIFT_BREAKS ==
    [a |-> [start |-> HM(10, 0), end |-> HM(10, 15)],
     b |-> [start |-> HM(12, 0), end |-> HM(12, 30)],
     c |-> [start |-> HM(16, 0), end |-> HM(16, 15)],
     d |-> [start |-> HM(18, 0), end |-> HM(18, 30)],
     e |-> [start |-> HM(20, 0), end |-> HM(20, 30)],
     f |-> [start |-> HM(22, 0), end |-> HM(22, 15)],
     g |-> [start |-> HM(0, 0), end |-> HM(0, 30)],
     h |-> [start |-> HM(3, 0), end |-> HM(3, 15)],
     i |-> [start |-> HM(5, 0), end |-> HM(5, 30)]]

\* a plausible slip: a break code listed twice in a mode
MutModeBreaksRepeated ==
    [mode1 |-> <<"a", "b", "e", "f", "h", "i">>,
     mode2 |-> <<"a", "b", "c", "f", "g", "g", "h", "i">>,
     mode3 |-> <<"a", "b", "c", "d", "f", "g", "h", "i">>]

WORKING_MODE_BREAKS ==
    [mode1 |-> <<"a", "b", "e", "f", "h", "i">>,
     mode2 |-> <<"a", "b", "c", "f", "g", "h", "i">>,
     mode3 |-> <<"a", "b", "c", "d", "f", "g", "h", "i">>]

\* datetime.date(): the calendar day of an instant
DateOf(t) == t \div SecondsPerDay

\* a plausible slip: the overlap is added without the test that there is one
MutBreakOverlapSigned(start_time, end_time, break_info, current_date) ==
    LET break_start_dt == current_date * SecondsPerDay + break_info.start
        break_end_dt == current_date * SecondsPerDay + break_info.end
                        + (IF break_info.start > break_info.end
                           THEN SecondsPerDay ELSE 0)
        overlap_start == Max(start_time, break_start_dt)
        overlap_end == Min(end_time, break_end_dt)
    IN overlap_end - overlap_start

\* one pass of the while loop: the overlap of the window with the break's
\* occurrence on current_date
BreakOverlap(start_time, end_time, break_info, current_date) ==
    LET break_start_dt == current_date * SecondsPerDay + break_info.start
        break_end_dt == current_date * SecondsPerDay + break_info.end
                        + (IF break_info.start > break_info.end
                           THEN SecondsPerDay ELSE 0)
        overlap_start == Max(start_time, break_start_dt)
        overlap_end == Min(end_time, break_end_dt)
    IN IF overlap_start < overlap_end THEN overlap_end - overlap_start ELSE 0

\* a plausible slip: the loop stops before end_date
RECURSIVE MutBreakOverDaysExclusive(_, _, _, _, _)
MutBreakOverDaysExclusive(start_time, end_time, break_info, current_date, end_date) ==
    IF current_date >= end_date THEN 0
    ELSE BreakOverlap(start_time, end_time, break_info, current_date)
         + MutBreakOverDaysExclusive(start_time, end_time, break_info,
                                     current_date + 1, end_date)

\* while current_date <= end_date
RECURSIVE BreakOverDays(_, _, _, _, _)
BreakOverDays(start_time, end_time, break_info, current_date, end_date) ==
    IF current_date > end_date THEN 0
    ELSE BreakOverlap(start_time, end_time, break_info, current_date)
         + BreakOverDays(start_time, end_time, break_info, current_date + 1, end_date)

\* for break_id in applicable_breaks
RECURSIVE BreakOverCodes(_, _, _)
BreakOverCodes(start_time, end_time, applicable_breaks) ==
    IF applicable_breaks = <<>> THEN 0
    ELSE BreakOverDays(start_time, end_time, SHIFT_BREAKS[Head(applicable_breaks)],
                       DateOf(start_time), DateOf(end_time))
         + BreakOverCodes(start_time, end_time, Tail(applicable_breaks))

calculate_break_time(start_time, end_time, working_mode) ==
    LET wm == IF working_mode \in DOMAIN WORKING_MODE_BREAKS
              THEN working_mode ELSE "mode1"
    IN BreakOverCodes(start_time, end_time, WORKING_MODE_BREAKS[wm])

(***************************************************************************)
(* Ratios: reduced fractions; Null stands for Python's None in a ratio     *)
(* field.                                                                  *)
(***************************************************************************)
RECURSIVE GCD(_, _)
GCD(a, b) == IF b = 0 THEN a ELSE GCD(b, a % b)
Abs(x) == IF x < 0 THEN 0 - x ELSE x
\* n / d for d # 0
Frac(n, d) ==
    LET g == GCD(Abs(n), Abs(d))
        sgn == IF d < 0 THEN 0 - 1 ELSE 1
    IN [n |-> sgn * (n \div g), d |-> sgn * (d \div g)]
Zero == [n |-> 0, d |-> 1]
Null == [n |-> 0, d |-> 0]

(***************************************************************************)
(* database.py: get_production_data                                        *)
(***************************************************************************)
\* a plausible slip: the grace rule applied only from the requested end on
MutIsLiveFromEndOn(current_time, query_end_time) ==
    /\ current_time - query_end_time >= 0
    /\ current_time - query_end_time <= FiveMinutes

\* time_difference <= five_minutes
IsLive(current_time, query_end_time) ==
    current_time - query_end_time <= FiveMinutes

\* a plausible slip: past the grace period the end stays at current_time
MutResolveEndNoReset(start_time, end_time, current_time) ==
    LET actual0 == IF current_time # None THEN current_time ELSE end_time
        actual1 == IF actual0 < start_time THEN start_time ELSE actual0
    IN IF current_time # None
       THEN [final_query_end_time |-> actual1, actual_end_time |-> actual1]
       ELSE [final_query_end_time |-> end_time, actual_end_time |-> actual1]

\* lines 129-162: the end of the query range and the end of the
\* operating-time basis
ResolveEnd(start_time, end_time, current_time) ==
    LET actual0 == IF current_time # None THEN current_time ELSE end_time
        actual1 == IF actual0 < start_time THEN start_time ELSE actual0
        query_end_time == end_time
    IN IF current_time # None
       THEN IF IsLive(current_time, query_end_time)
            THEN [final_query_end_time |-> actual1, actual_end_time |-> actual1]
            ELSE [final_query_end_time |-> query_end_time,
                  actual_end_time |-> query_end_time]
       ELSE [final_query_end_time |-> query_end_time, actual_end_time |-> actual1]

\* row[3] is not None and row[3] > 0
HasTarget(target) == target # None /\ target > 0

\* a plausible slip: the quality is taken per failed piece
MutFirstPassPerFail(row, operation_time) ==
    [model |-> row.model,
     success_qty |-> row.success,
     fail_qty |-> row.fail,
     target |-> row.target,
     total_qty |-> row.success,
     quality |-> IF row.fail > 0 THEN Frac(row.success, row.fail) ELSE Zero,
     performance |-> Null,
     oee |-> Null,
     theoretical_qty |-> IF HasTarget(row.target)
                         THEN Frac(operation_time * row.target, SecondsPerHour)
                         ELSE Zero]

\* lines 196-215: the first pass over a row (model, SuccessQty, FailQty, Target)
FirstPass(row, operation_time) ==
    [model |-> row.model,
     success_qty |-> row.success,
     fail_qty |-> row.fail,
     target |-> row.target,
     total_qty |-> row.success,
     quality |-> IF row.success + row.fail > 0
                 THEN Frac(row.success, row.success + row.fail) ELSE Zero,
     performance |-> Null,
     oee |-> Null,
     theoretical_qty |-> IF HasTarget(row.target)
                         THEN Frac(operation_time * row.target, SecondsPerHour)
                         ELSE Zero]

\* a plausible slip: a model without a target reads 0 instead of None
MutSecondPassZero(model_data, operation_time) ==
    IF HasTarget(model_data.target)
    THEN LET theoretical == operation_time * model_data.target
         IN [model_data EXCEPT
                !.theoretical_qty = Frac(theoretical, SecondsPerHour),
                !.performance = IF theoretical > 0
                                THEN Frac(model_data.total_qty * SecondsPerHour,
                                          theoretical)
                                ELSE Zero]
    ELSE [model_data EXCEPT !.theoretical_qty = Zero, !.performance = Zero]

\* lines 218-229: the second pass when some model has a target
SecondPass(model_data, operation_time) ==
    IF HasTarget(model_data.target)
    THEN LET theoretical == operation_time * model_data.target
         IN [model_data EXCEPT
                !.theoretical_qty = Frac(theoretical, SecondsPerHour),
                !.performance = IF theoretical > 0
                                THEN Frac(model_data.total_qty * SecondsPerHour,
                                          theoretical)
                                ELSE Zero]
    ELSE [model_data EXCEPT !.theoretical_qty = Zero, !.performance = Null]

\* lines 231-233: the second pass when no model has a target
NoTargetPass(model_data) ==
    IF HasTarget(model_data.target)
    THEN [model_data EXCEPT !.performance = Zero]
    ELSE model_data

get_production_data(start_time, end_time, current_time, working_mode, all_rows) ==
    LET ends == ResolveEnd(start_time, end_time, current_time)
        actual_end_time == ends.actual_end_time
        operation_time_total == actual_end_time - start_time
        break_time == calculate_break_time(start_time, actual_end_time, working_mode)
        operation_time == Max(operation_time_total - break_time, 0)
        first == [i \in 1..Len(all_rows) |-> FirstPass(all_rows[i], operation_time)]
        models_with_target ==
            {i \in 1..Len(all_rows) : HasTarget(all_rows[i].target)}
        results ==
            [i \in 1..Len(all_rows) |->
                IF models_with_target # {}
                THEN SecondPass(first[i], operation_time)
                ELSE NoTargetPass(first[i])]
    IN [final_query_end_time |-> ends.final_query_end_time,
        actual_end_time |-> actual_end_time,
        operation_time |-> operation_time,
        models |-> results]

(***************************************************************************)
(* main.py: what the callers of get_production_data decide on their own    *)
(***************************************************************************)
\* if not model['target']
Falsy(target) == target = None \/ target = 0

\* m['target'] and m['target'] > 0
TargetBearing(models) ==
    {i \in 1..Len(models) : ~Falsy(models[i].target) /\ models[i].target > 0}

\* websocket_endpoint, lines 435-438
StandardModels(models) ==
    [i \in 1..Len(models) |->
        IF Falsy(models[i].target)
        THEN [models[i] EXCEPT !.performance = Null, !.oee = Null]
        ELSE models[i]]

\* a caller's own decision: who decided, live or not, and the end it uses
Decision(who, live, effective_end) ==
    [who |-> who, live |-> live, effective_end |-> effective_end]

\* websocket_endpoint 459-462 and hourly_websocket_endpoint 565-568
TotalActualEnd(end_time, current_time) ==
    IF current_time - end_time <= FiveMinutes THEN current_time ELSE end_time

\* hourly_websocket_endpoint 588-594
HourlyIsLive(end_time, current_time) == Abs(current_time - end_time) <= FiveMinutes

RECURSIVE SumTotalQty(_, _)
SumTotalQty(models, idx) ==
    IF idx = {} THEN 0
    ELSE LET i == CHOOSE x \in idx : TRUE
         IN models[i].total_qty + SumTotalQty(models, idx \ {i})

\* websocket_endpoint: the model list and the decision behind total_performance
StandardDecisions(r, models) ==
    IF TargetBearing(models) # {} /\ SumTotalQty(models, TargetBearing(models)) > 0
    THEN {Decision("standard_total",
                   r.current_time - r.end_time <= FiveMinutes,
                   TotalActualEnd(r.end_time, r.current_time))}
    ELSE {}

\* hourly_websocket_endpoint: total_performance and the bucket partition
HourlyDecisions(r, models) ==
    (IF TargetBearing(models) # {}
     THEN {Decision("hourly_total",
                    r.current_time - r.end_time <= FiveMinutes,
                    TotalActualEnd(r.end_time, r.current_time))}
     ELSE {})
    \cup {Decision("hourly_buckets",
                   HourlyIsLive(r.end_time, r.current_time),
                   IF HourlyIsLive(r.end_time, r.current_time)
                   THEN r.current_time ELSE r.end_time)}

\* get_historical_data 271-274: the operating time runs to end_dt
HistoricalDecisions(r, models) ==
    IF TargetBearing(models) # {}
    THEN {Decision("historical_total", FALSE, r.end_time)}
    ELSE {}

(***************************************************************************)
(* The metrics path: one request, its query, and what the caller builds    *)
(***************************************************************************)
NoReq == [start_time |-> 0, end_time |-> 0, current_time |-> None,
          working_mode |-> "none", rows |-> <<>>]
NoRes == [final_query_end_time |-> None, actual_end_time |-> None,
          operation_time |-> 0, models |-> <<>>,
          caller |-> "none", decisions |-> {}]

\* the rows a grouped count query may return
RowValues ==
    {[success |-> 80, fail |-> 20, target |-> 100],
     [success |-> 0, fail |-> 0, target |-> 100],
     [success |-> 80, fail |-> 20, target |-> None],
     [success |-> 80, fail |-> 0, target |-> 0],
     [success |-> 0, fail |-> 20, target |-> 0 - 5],
     [success |-> 30, fail |-> 0, target |-> 60]}

RECURSIVE Batches(_)
Batches(n) ==
    IF n = 0 THEN {<<>>}
    ELSE Batches(n - 1) \cup
         {Append(b, [model |-> Len(b) + 1, success |-> v.success,
                     fail |-> v.fail, target |-> v.target]) :
              b \in {x \in Batches(n - 1) : Len(x) = n - 1}, v \in RowValues}

\* requested windows: 08:00-09:00 (no break in it), 09:30-10:30 (break a in
\* it) and 10:00-10:15 (break a and nothing else)
TimeWindows ==
    {[start_time |-> HM(8, 0), end_time |-> HM(9, 0)],
     [start_time |-> HM(9, 30), end_time |-> HM(10, 30)],
     [start_time |-> HM(10, 0), end_time |-> HM(10, 15)]}

\* current_time, as an offset from the requested end
NowOffsets == {0 - 7200, 0 - 600, 0, 240, FiveMinutes, FiveMinutes + 1, 360, 3600}

Requests ==
    {[start_time |-> w.start_time, end_time |-> w.end_time,
      current_time |-> now, working_mode |-> m, rows |-> b] :
         w \in TimeWindows,
         now \in {None} \cup {HM(9, 0) + o : o \in NowOffsets}
                        \cup {HM(10, 30) + o : o \in NowOffsets},
         m \in {"mode1", "modeX"},
         b \in Batches(MaxRows)}

MetricsInit ==
    /\ stage = "idle"
    /\ req = NoReq
    /\ res = NoRes

\* rows as given: the business logic takes whatever counts the rows carry
GivenRowValues ==
    RowValues
    \cup {[success |-> 0 - 5, fail |-> 10, target |-> 100],
          [success |-> 10, fail |-> 0 - 5, target |-> 100],
          [success |-> 0 - 5, fail |-> 5, target |-> 100],
          [success |-> 0 - 5, fail |-> 0, target |-> 100]}

RECURSIVE GivenBatches(_)
GivenBatches(n) ==
    IF n = 0 THEN {<<>>}
    ELSE GivenBatches(n - 1) \cup
         {Append(b, [model |-> Len(b) + 1, success |-> v.success,
                     fail |-> v.fail, target |-> v.target]) :
              b \in {x \in GivenBatches(n - 1) : Len(x) = n - 1},
              v \in GivenRowValues}

\* 08:00-09:00 asked without a clock and at 09:04
GivenRequests ==
    {[start_time |-> HM(8, 0), end_time |-> HM(9, 0),
      current_time |-> now, working_mode |-> "mode1", rows |-> b] :
         now \in {None, HM(9, 4)},
         b \in GivenBatches(MaxRows)}

\* a request (or a push cycle) starts: its parameters, the clock, the rows
RequestFrom(R) ==
    /\ stage = "idle"
    /\ stage' = "requested"
    /\ req' \in R
    /\ res' = NoRes
    /\ UNCHANGED <<sessionVars, brk, hrs, rpt>>

Request == RequestFrom(Requests)
RequestAsGiven == RequestFrom(GivenRequests)

\* await get_production_data(...)
Query ==
    /\ UNCHANGED <<sessionVars, brk, hrs, rpt>>
    /\ stage = "requested"
    /\ stage' = "computed"
    /\ LET d == get_production_data(req.start_time, req.end_time, req.current_time,
                                    req.working_mode, req.rows)
       IN res' = [final_query_end_time |-> d.final_query_end_time,
                  actual_end_time |-> d.actual_end_time,
                  operation_time |-> d.operation_time,
                  models |-> d.models,
                  caller |-> "none", decisions |-> {}]
    /\ UNCHANGED req

\* the caller builds its response; every caller passes datetime.now()
Build(caller) ==
    /\ UNCHANGED <<sessionVars, brk, hrs, rpt>>
    /\ stage = "computed"
    /\ req.current_time # None
    /\ stage' = "built"
    /\ res' = [res EXCEPT
                  !.caller = caller,
                  !.models = IF caller = "standard"
                             THEN StandardModels(res.models) ELSE res.models,
                  !.decisions =
                      CASE caller = "standard" -> StandardDecisions(req, res.models)
                        [] caller = "hourly" -> HourlyDecisions(req, res.models)
                        [] OTHER -> HistoricalDecisions(req, res.models)]
    /\ UNCHANGED req

BuildStandard == Build("standard")
BuildHourly == Build("hourly")
BuildHistorical == Build("historical")

MetricsNext ==
    \/ Request
    \/ Query
    \/ BuildStandard
    \/ BuildHourly
    \/ BuildHistorical

(***************************************************************************)
(* The break calendar on its own: calls of calculate_break_time, and of    *)
(* its per-break loop (lines 54-74) for one break definition               *)
(***************************************************************************)
NoBreakInfo == [start |-> 0, end |-> 0]
\* a second call, for a window that contains the window of the first
NoWider == [start_time |-> 0, end_time |-> 0, total |-> 0]
NoBreakCall == [call |-> "none", start_time |-> 0, end_time |-> 0,
                working_mode |-> "none", break_info |-> NoBreakInfo, total |-> 0,
                wider |-> NoWider]

\* a definition whose end-of-day precedes its start-of-day
WrapBreak == [start |-> HM(23, 45), end |-> HM(0, 15)]

BreakDefinitions == {SHIFT_BREAKS[c] : c \in DOMAIN SHIFT_BREAKS} \cup {WrapBreak}

BreakModes == {"mode1", "mode2", "mode3", "modeX"}

\* the instants a window may start or end at, on calendar days 1..MaxDays
DayTimes == {HM(0, 0), HM(0, 5), HM(0, 30), HM(10, 5), HM(12, 0), HM(23, 50)}
Instants == {d * SecondsPerDay + t : d \in 1..MaxDays, t \in DayTimes}
BreakWindows ==
    {[start_time |-> a, end_time |-> b] : a \in Instants, b \in Instants}

BreakInit == brk = NoBreakCall

\* calculate_break_time(start_time, end_time, working_mode)
BreakTimeCall ==
    /\ brk.call = "none"
    /\ \E w \in {x \in BreakWindows : x.start_time <= x.end_time},
          m \in BreakModes :
          brk' = [call |-> "mode", start_time |-> w.start_time,
                  end_time |-> w.end_time, working_mode |-> m,
                  break_info |-> NoBreakInfo,
                  total |-> calculate_break_time(w.start_time, w.end_time, m),
                  wider |-> NoWider]
    /\ UNCHANGED <<sessionVars, stage, req, res, hrs, rpt>>

\* the body of the for loop for one break definition
BreakLoopCall ==
    /\ brk.call = "none"
    /\ \E w \in {x \in BreakWindows : x.start_time <= x.end_time},
          b \in BreakDefinitions :
          brk' = [call |-> "break", start_time |-> w.start_time,
                  end_time |-> w.end_time, working_mode |-> "none",
                  break_info |-> b,
                  total |-> BreakOverDays(w.start_time, w.end_time, b,
                                          DateOf(w.start_time), DateOf(w.end_time)),
                  wider |-> NoWider]
    /\ UNCHANGED <<sessionVars, stage, req, res, hrs, rpt>>

\* calculate_break_time for a window, of either orientation, and for a
\* window that contains it
BreakWidenCall ==
    /\ brk.call = "none"
    /\ \E w \in BreakWindows, m \in BreakModes :
          \E v \in {x \in BreakWindows : /\ x.start_time <= w.start_time
                                         /\ w.end_time <= x.end_time} :
             brk' = [call |-> "widen", start_time |-> w.start_time,
                     end_time |-> w.end_time, working_mode |-> m,
                     break_info |-> NoBreakInfo,
                     total |-> calculate_break_time(w.start_time, w.end_time, m),
                     wider |-> [start_time |-> v.start_time,
                                end_time |-> v.end_time,
                                total |-> calculate_break_time(v.start_time,
                                                               v.end_time, m)]]
    /\ UNCHANGED <<sessionVars, stage, req, res, hrs, rpt>>

\* return total_break_seconds
BreakReturn ==
    /\ brk.call # "none"
    /\ brk' = NoBreakCall
    /\ UNCHANGED <<sessionVars, stage, req, res, hrs, rpt>>

BreaksNext ==
    \/ BreakTimeCall
    \/ BreakLoopCall
    \/ BreakWidenCall
    \/ BreakReturn

(***************************************************************************)
(* The operating time of get_production_data (lines 188-190) for windows   *)
(* of either orientation, every working mode, with and without a clock     *)
(***************************************************************************)
\* current_time, as an offset from the requested end: before it, within the
\* five minutes after it, and past them
OperatingOffsets == {0 - 600, 240, FiveMinutes + 1}

\* the rows do not enter the operating time: none, or one row with a target
OperatingRows ==
    {<<>>, <<[model |-> 1, success |-> 30, fail |-> 0, target |-> 60]>>}

OperatingRequests ==
    {[start_time |-> w.start_time, end_time |-> w.end_time,
      current_time |-> IF o = None THEN None ELSE w.end_time + o,
      working_mode |-> m, rows |-> b] :
         w \in BreakWindows,
         o \in {None} \cup OperatingOffsets,
         m \in BreakModes,
         b \in OperatingRows}

(***************************************************************************)
(* main.py: the hourly breakdown of get_historical_hourly_data ("rest")    *)
(* and of hourly_websocket_endpoint ("ws")                                 *)
(***************************************************************************)
FracAdd(a, b) == Frac(a.n * b.d + b.n * a.d, a.d * b.d)

\* sum(m[f] for m in models)
RECURSIVE SumField(_, _)
SumField(models, f) ==
    IF models = <<>> THEN 0
    ELSE Head(models)[f] + SumField(Tail(models), f)

\* total_success / total_processed if total_processed > 0 else 0
TotalQuality(models) ==
    LET total_success == SumField(models, "success_qty")
        total_fail == SumField(models, "fail_qty")
        total_processed == total_success + total_fail
    IN IF total_processed > 0 THEN Frac(total_success, total_processed) ELSE Zero

\* sum(h['theoretical_qty'] for h in hourly_data)
RECURSIVE SumTheoretical(_)
SumTheoretical(hourly_data) ==
    IF hourly_data = <<>> THEN Zero
    ELSE FracAdd(Head(hourly_data).theoretical_qty,
                 SumTheoretical(Tail(hourly_data)))

\* sum(m['total_qty'] * m['target'] for m in models_with_target)
RECURSIVE SumQtyTarget(_, _)
SumQtyTarget(models, idx) ==
    IF idx = {} THEN 0
    ELSE LET i == CHOOSE x \in idx : TRUE
         IN models[i].total_qty * models[i].target
            + SumQtyTarget(models, idx \ {i})

\* (op_time / 3600) * sum((m['total_qty'] / actual) * m['target'] ...),
\* 0 when there is no target-bearing model or no quantity
WeightedTheoretical(models, op_time) ==
    LET idx == TargetBearing(models)
        actual == SumTotalQty(models, idx)
    IN IF idx # {} /\ actual > 0
       THEN Frac(op_time * SumQtyTarget(models, idx), SecondsPerHour * actual)
       ELSE Zero

\* actual / theoretical if theoretical > 0 else 0
Ratio(actual, theoretical) ==
    IF theoretical.n > 0 THEN Frac(actual * theoretical.d, theoretical.n) ELSE Zero

\* start.replace(minute=0, second=0, microsecond=0)
FloorToHour(t) == t - (t % SecondsPerHour)

\* one entry of hourly_data, from the models of the bucket's query
HourEntry(current_hour, hour_end, hour_data, working_mode) ==
    LET hour_success == SumField(hour_data, "success_qty")
        hour_fail == SumField(hour_data, "fail_qty")
        h_op_time == Max((hour_end - current_hour)
                         - calculate_break_time(current_hour, hour_end, working_mode),
                         0)
        theoretical == WeightedTheoretical(hour_data, h_op_time)
    IN [hour_start |-> current_hour,
        hour_end |-> hour_end,
        success_qty |-> hour_success,
        fail_qty |-> hour_fail,
        total_qty |-> SumField(hour_data, "total_qty"),
        quality |-> IF hour_success + hour_fail > 0
                    THEN Frac(hour_success, hour_success + hour_fail) ELSE Zero,
        performance |-> Ratio(SumTotalQty(hour_data, TargetBearing(hour_data)),
                              theoretical),
        theoretical_qty |-> theoretical]

\* hourly_websocket_endpoint 559-582: total_performance from the rows of the
\* main query (None is reported as 0)
WsTotalPerformance(start_time, end_time, current_time, working_mode, raw_data) ==
    IF TargetBearing(raw_data) = {} THEN Zero
    ELSE LET actual_end == TotalActualEnd(end_time, current_time)
             op_total == Max(actual_end - start_time, 0)
             op_time == Max(op_total
                            - calculate_break_time(start_time, actual_end,
                                                   working_mode), 0)
         IN Ratio(SumTotalQty(raw_data, TargetBearing(raw_data)),
                  WeightedTheoretical(raw_data, op_time))

NoHourly ==
    [stage |-> "idle", caller |-> "none", start_time |-> 0, end_time |-> 0,
     current_time |-> 0, working_mode |-> "none", raw_data |-> <<>>,
     is_live_data |-> FALSE, actual_end_for_hourly |-> 0, current_hour |-> 0,
     hourly_data |-> <<>>, queries |-> 0, skipped |-> 0,
     total_qty |-> 0, total_performance |-> Zero, total_theoretical_qty |-> Zero]

\* the rows a bucket query (or the main query of the channel) may return
HourBatches ==
    {<<>>,
     <<[model |-> 1, success |-> 80, fail |-> 20, target |-> 100]>>,
     <<[model |-> 1, success |-> 80, fail |-> 20, target |-> None],
       [model |-> 2, success |-> 30, fail |-> 0, target |-> 60]>>}

\* 10:00-12:30 (breaks a and b in it), 09:30-10:30 (starts inside an hour),
\* 08:00-09:00 and the empty window 08:00-08:00
HourlyWindows ==
    {[start_time |-> HM(10, 0), end_time |-> HM(12, 30)],
     [start_time |-> HM(9, 30), end_time |-> HM(10, 30)],
     [start_time |-> HM(8, 0), end_time |-> HM(9, 0)],
     [start_time |-> HM(8, 0), end_time |-> HM(8, 0)]}

\* current_time, as an offset from the requested end
HourlyOffsets == {0 - 7200, 0 - 120, 0, 240, FiveMinutes + 1}

HourlyModes == {"mode1"}

HourlyInit == hrs = NoHourly

\* the statements after the bucket loop: the totals of the response
HourlyFinish(h) ==
    LET total_theoretical_qty == SumTheoretical(h.hourly_data)
    IN IF h.caller = "rest"
       THEN [h EXCEPT !.stage = "done",
                      !.total_qty = SumField(h.hourly_data, "total_qty"),
                      !.total_theoretical_qty = total_theoretical_qty,
                      !.total_performance =
                          Ratio(SumField(h.hourly_data, "total_qty"),
                                total_theoretical_qty)]
       ELSE [h EXCEPT !.stage = "done",
                      !.total_qty = SumField(h.raw_data, "total_qty"),
                      !.total_theoretical_qty = total_theoretical_qty,
                      !.total_performance =
                          WsTotalPerformance(h.start_time, h.end_time,
                                             h.current_time, h.working_mode,
                                             h.raw_data)]

\* while current_hour < end: stay in the loop or build the response
HourlyContinue(h) ==
    IF h.current_hour < h.actual_end_for_hourly
    THEN [h EXCEPT !.stage = "loop"]
    ELSE HourlyFinish(h)

\* everything before the first bucket query; on the channel, the main query
\* has returned raw_data
HourlyStart(caller) ==
    /\ hrs.stage = "idle"
    /\ \E w \in HourlyWindows, o \in HourlyOffsets, m \in HourlyModes,
          b \in (IF caller = "ws" THEN HourBatches ELSE {<<>>}) :
          LET now == w.end_time + o
              live == caller = "ws" /\ HourlyIsLive(w.end_time, now)
              raw == get_production_data(w.start_time, w.end_time, now, m, b).models
          IN hrs' = HourlyContinue(
                 [NoHourly EXCEPT
                     !.caller = caller,
                     !.start_time = w.start_time,
                     !.end_time = w.end_time,
                     !.current_time = now,
                     !.working_mode = m,
                     !.raw_data = raw,
                     !.is_live_data = live,
                     !.actual_end_for_hourly = IF live THEN now ELSE w.end_time,
                     !.current_hour = FloorToHour(w.start_time)])
    /\ UNCHANGED <<sessionVars, stage, req, res, brk, rpt>>

HourlyStartRest == HourlyStart("rest")
HourlyStartWs == HourlyStart("ws")

\* a plausible slip: the last bucket runs to the requested end, not to now
MutHourEndAtRequestedEnd(h) == Min(h.current_hour + SecondsPerHour, h.end_time)

\* a plausible slip: every bucket runs a full hour
MutHourEndFullHour(h) == h.current_hour + SecondsPerHour

\* hour_end of the bucket that starts at the cursor
HourEnd(h) ==
    IF /\ h.is_live_data
       /\ h.current_hour < h.current_time
       /\ h.current_time < h.current_hour + SecondsPerHour
    THEN h.current_time
    ELSE Min(h.current_hour + SecondsPerHour, h.actual_end_for_hourly)

\* the cursor after the bucket
NextHour(h) ==
    IF h.is_live_data /\ HourEnd(h) = h.current_time
    THEN h.current_hour + SecondsPerHour
    ELSE HourEnd(h)

\* one pass of the bucket loop whose query returned rows
HourlyBucketOk ==
    /\ hrs.stage = "loop"
    /\ \E b \in HourBatches :
          LET hour_data == get_production_data(hrs.current_hour, HourEnd(hrs),
                                               hrs.current_time, hrs.working_mode,
                                               b).models
          IN hrs' = HourlyContinue(
                 [hrs EXCEPT
                     !.hourly_data = Append(@, HourEntry(hrs.current_hour, HourEnd(hrs),
                                                         hour_data, hrs.working_mode)),
                     !.queries = @ + 1,
                     !.current_hour = NextHour(hrs)])
    /\ UNCHANGED <<sessionVars, stage, req, res, brk, rpt>>

\* a plausible slip: the skip leaves the cursor where it is
MutHourlyBucketFailStays ==
    /\ hrs.stage = "loop"
    /\ hrs' = HourlyContinue([hrs EXCEPT !.queries = @ + 1,
                                          !.skipped = @ + 1])
    /\ UNCHANGED <<sessionVars, stage, req, res, brk, rpt>>

\* a plausible slip: a failed bucket query ends the loop
MutHourlyBucketFailBreaks ==
    /\ hrs.stage = "loop"
    /\ hrs' = HourlyFinish([hrs EXCEPT !.queries = @ + 1,
                                        !.skipped = @ + 1,
                                        !.current_hour = NextHour(hrs)])
    /\ UNCHANGED <<sessionVars, stage, req, res, brk, rpt>>

\* one pass whose query timed out or raised: the bucket is skipped
HourlyBucketFail ==
    /\ hrs.stage = "loop"
    /\ hrs' = HourlyContinue([hrs EXCEPT !.queries = @ + 1,
                                          !.skipped = @ + 1,
                                          !.current_hour = NextHour(hrs)])
    /\ UNCHANGED <<sessionVars, stage, req, res, brk, rpt>>

\* the response has gone out
HourlyReturn ==
    /\ hrs.stage = "done"
    /\ hrs' = NoHourly
    /\ UNCHANGED <<sessionVars, stage, req, res, brk, rpt>>

HourlyNext ==
    \/ HourlyStartRest
    \/ HourlyStartWs
    \/ HourlyBucketOk
    \/ HourlyBucketFail
    \/ HourlyReturn

(***************************************************************************)
(* main.py: get_report_data, the multi-unit report                         *)
(***************************************************************************)
Units == 1..MaxUnits
\* a token of units.split(',') that strips to the empty string
Blank == 0

FracMulInt(a, k) == Frac(a.n * k, a.d)

\* sum(m['performance'] for m in production_data if ... is not None)
RECURSIVE SumPerformance(_)
SumPerformance(production_data) ==
    IF production_data = <<>> THEN Zero
    ELSE IF Head(production_data).performance = Null
         THEN SumPerformance(Tail(production_data))
         ELSE FracAdd(Head(production_data).performance,
                      SumPerformance(Tail(production_data)))

\* the entry unit_data[unit_name]
UnitEntry(production_data) ==
    LET unit_success == SumField(production_data, "success_qty")
        unit_fail == SumField(production_data, "fail_qty")
        unit_total == unit_success + unit_fail
    IN [total_success |-> unit_success,
        total_fail |-> unit_fail,
        total_qty |-> unit_total,
        quality |-> IF unit_total > 0 THEN Frac(unit_success, unit_total) ELSE Zero,
        performance_sum |-> SumPerformance(production_data),
        models |-> production_data]

NoSummary == [total_success |-> 0, total_fail |-> 0, total_production |-> 0,
              weighted_quality |-> Zero, weighted_performance |-> Zero]

NoReport ==
    [stage |-> "idle", status |-> 0, raw_units |-> <<>>, times_ok |-> TRUE,
     unit_list |-> <<>>,
     start_time |-> 0, end_time |-> 0, current_time |-> 0, working_mode |-> "none",
     cursor |-> 1, log |-> <<>>, unit_data |-> <<>>,
     total_success_all |-> 0, total_fail_all |-> 0, total_production_all |-> 0,
     weighted_quality_sum |-> Zero, weighted_performance_sum |-> Zero,
     total_success_weight |-> 0, summary |-> NoSummary]

\* the statements after the loop over the units
ReportFinish(r) ==
    [r EXCEPT
        !.stage = "done",
        !.status = 200,
        !.summary =
            [total_success |-> r.total_success_all,
             total_fail |-> r.total_fail_all,
             total_production |-> r.total_production_all,
             weighted_quality |->
                 IF r.total_production_all > 0
                 THEN Frac(r.weighted_quality_sum.n,
                           r.weighted_quality_sum.d * r.total_production_all)
                 ELSE Zero,
             weighted_performance |->
                 IF r.total_success_weight > 0
                 THEN Frac(r.weighted_performance_sum.n,
                           r.weighted_performance_sum.d * r.total_success_weight)
                 ELSE Zero]]

\* for unit_name in unit_list: the next query, or the end of the loop
ReportContinue(r) ==
    IF r.cursor <= Len(r.unit_list) THEN [r EXCEPT !.stage = "loop"]
    ELSE ReportFinish(r)

\* the comma-separated lists a request may carry: up to MaxUnits tokens, each
\* blank or a unit name, no unit named twice
RECURSIVE TokenLists(_)
TokenLists(n) ==
    IF n = 0 THEN {<<>>}
    ELSE TokenLists(n - 1) \cup
         {Append(l, t) : l \in {x \in TokenLists(n - 1) : Len(x) = n - 1},
                         t \in Units \cup {Blank}}
RawUnitLists ==
    {l \in TokenLists(MaxUnits) :
        /\ l # <<>>
        /\ \A i, j \in 1..Len(l) : (i # j /\ l[i] # Blank) => l[i] # l[j]}

\* the rows the query of a unit may return
ReportBatches ==
    HourBatches
    \cup {<<[model |-> 1, success |-> 10, fail |-> 0, target |-> 100]>>,
          <<[model |-> 1, success |-> 5, fail |-> 5, target |-> 100]>>,
          <<[model |-> 1, success |-> 0, fail |-> 20, target |-> 100]>>}

ReportWindows ==
    {[start_time |-> HM(8, 0), end_time |-> HM(9, 0)],
     [start_time |-> HM(9, 30), end_time |-> HM(10, 30)]}
ReportOffsets == {240, SecondsPerHour}

ReportInit == rpt = NoReport

\* a plausible slip: the times are parsed before the unit list is looked at
MutReportStartParsesFirst ==
    /\ rpt.stage = "idle"
    /\ \E raw \in RawUnitLists, w \in ReportWindows, o \in ReportOffsets,
          times_ok \in BOOLEAN :
          LET unit_list == SelectSeq(raw, LAMBDA t : t # Blank)
          IN rpt' = IF ~times_ok
                    THEN [NoReport EXCEPT !.stage = "failed", !.status = 500,
                                          !.raw_units = raw, !.times_ok = times_ok,
                                          !.unit_list = unit_list]
                    ELSE IF unit_list = <<>>
                    THEN [NoReport EXCEPT !.stage = "rejected", !.status = 400,
                                          !.raw_units = raw, !.times_ok = times_ok]
                    ELSE ReportContinue(
                             [NoReport EXCEPT
                                 !.raw_units = raw,
                                 !.times_ok = times_ok,
                                 !.unit_list = unit_list,
                                 !.start_time = w.start_time,
                                 !.end_time = w.end_time,
                                 !.current_time = w.end_time + o,
                                 !.working_mode = "mode1"])
    /\ UNCHANGED <<sessionVars, stage, req, res, brk, hrs>>

\* lines 161-175: the unit list, the validation (HTTPException 400, passed
\* on by the handler at 234-235), the times (_parse_time_params raising ends
\* in the handler at 236-239: 500)
ReportStart ==
    /\ rpt.stage = "idle"
    /\ \E raw \in RawUnitLists, w \in ReportWindows, o \in ReportOffsets,
          times_ok \in BOOLEAN :
          LET unit_list == SelectSeq(raw, LAMBDA t : t # Blank)
          IN rpt' = IF unit_list = <<>>
                    THEN [NoReport EXCEPT !.stage = "rejected", !.status = 400,
                                          !.raw_units = raw, !.times_ok = times_ok]
                    ELSE IF ~times_ok
                    THEN [NoReport EXCEPT !.stage = "failed", !.status = 500,
                                          !.raw_units = raw, !.times_ok = times_ok,
                                          !.unit_list = unit_list]
                    ELSE ReportContinue(
                             [NoReport EXCEPT
                                 !.raw_units = raw,
                                 !.times_ok = times_ok,
                                 !.unit_list = unit_list,
                                 !.start_time = w.start_time,
                                 !.end_time = w.end_time,
                                 !.current_time = w.end_time + o,
                                 !.working_mode = "mode1"])
    /\ UNCHANGED <<sessionVars, stage, req, res, brk, hrs>>

\* a plausible slip: the performance of a unit is weighted by its total count
MutReportUnitOkWeightsTotal ==
    /\ rpt.stage = "loop"
    /\ \E b \in ReportBatches :
          LET this_unit == rpt.unit_list[rpt.cursor]
              production_data ==
                  get_production_data(rpt.start_time, rpt.end_time,
                                      rpt.current_time, rpt.working_mode, b).models
              e == UnitEntry(production_data)
          IN rpt' = ReportContinue(
                 [rpt EXCEPT
                     !.cursor = @ + 1,
                     !.log = Append(@, [unit |-> this_unit, outcome |-> "ok", rows |-> b]),
                     !.unit_data = Append(@, [unit |-> this_unit, entry |-> e]),
                     !.total_success_all = @ + e.total_success,
                     !.total_fail_all = @ + e.total_fail,
                     !.total_production_all = @ + e.total_qty,
                     !.weighted_quality_sum =
                         IF e.total_qty > 0
                         THEN FracAdd(@, FracMulInt(e.quality, e.total_qty)) ELSE @,
                     !.weighted_performance_sum =
                         IF e.total_qty > 0
                         THEN FracAdd(@, FracMulInt(e.performance_sum, e.total_qty))
                         ELSE @,
                     !.total_success_weight =
                         IF e.total_qty > 0 THEN @ + e.total_qty ELSE @])
    /\ UNCHANGED <<sessionVars, stage, req, res, brk, hrs>>

\* the query of the unit at the cursor returned rows
ReportUnitOk ==
    /\ rpt.stage = "loop"
    /\ \E b \in ReportBatches :
          LET this_unit == rpt.unit_list[rpt.cursor]
              production_data ==
                  get_production_data(rpt.start_time, rpt.end_time,
                                      rpt.current_time, rpt.working_mode, b).models
              e == UnitEntry(production_data)
          IN rpt' = ReportContinue(
                 [rpt EXCEPT
                     !.cursor = @ + 1,
                     !.log = Append(@, [unit |-> this_unit, outcome |-> "ok", rows |-> b]),
                     !.unit_data = Append(@, [unit |-> this_unit, entry |-> e]),
                     !.total_success_all = @ + e.total_success,
                     !.total_fail_all = @ + e.total_fail,
                     !.total_production_all = @ + e.total_qty,
                     !.weighted_quality_sum =
                         IF e.total_qty > 0
                         THEN FracAdd(@, FracMulInt(e.quality, e.total_qty)) ELSE @,
                     !.weighted_performance_sum =
                         IF e.total_success > 0
                         THEN FracAdd(@, FracMulInt(e.performance_sum, e.total_success))
                         ELSE @,
                     !.total_success_weight =
                         IF e.total_success > 0 THEN @ + e.total_success ELSE @])
    /\ UNCHANGED <<sessionVars, stage, req, res, brk, hrs>>

\* a plausible slip: break instead of continue
MutReportUnitFailBreaks(why) ==
    /\ rpt.stage = "loop"
    /\ rpt' = ReportFinish(
           [rpt EXCEPT
               !.cursor = @ + 1,
               !.log = Append(@, [unit |-> rpt.unit_list[rpt.cursor],
                                  outcome |-> why, rows |-> <<>>])])
    /\ UNCHANGED <<sessionVars, stage, req, res, brk, hrs>>

\* ... timed out or raised: continue
ReportUnitFail(why) ==
    /\ rpt.stage = "loop"
    /\ rpt' = ReportContinue(
           [rpt EXCEPT
               !.cursor = @ + 1,
               !.log = Append(@, [unit |-> rpt.unit_list[rpt.cursor],
                                  outcome |-> why, rows |-> <<>>])])
    /\ UNCHANGED <<sessionVars, stage, req, res, brk, hrs>>

ReportUnitTimeout == ReportUnitFail("timeout")
ReportUnitError == ReportUnitFail("error")

\* the response (or the HTTPException) has gone out
ReportReturn ==
    /\ rpt.stage \in {"done", "rejected", "failed"}
    /\ rpt' = NoReport
    /\ UNCHANGED <<sessionVars, stage, req, res, brk, hrs>>

ReportNext ==
    \/ ReportStart
    \/ ReportUnitOk
    \/ ReportUnitTimeout
    \/ ReportUnitError
    \/ ReportReturn

(***************************************************************************)
(* Initial state: no session has connected yet.                            *)
(***************************************************************************)
SessionInit ==
    /\ active_connections = [k \in Kinds |-> <<>>]
    /\ pc = [s \in Sessions |-> "idle"]
    /\ kind = [s \in Sessions |-> "none"]
    /\ unit_name = [s \in Sessions |-> 0]
    /\ conn = [s \in Sessions |-> "CONNECTING"]
    /\ params = [s \in Sessions |-> NoParams]
    /\ qry = [s \in Sessions |-> NoParams]
    /\ qunit = [s \in Sessions |-> 0]
    /\ waited = [s \in Sessions |-> 0]
    /\ last = [s \in Sessions |-> Event("none", NoMsg)]
    /\ out = [s \in Sessions |-> <<>>]

(***************************************************************************)
(* The except/finally of both endpoints (main.py 508-515, 700-707): every  *)
(* exit from the try block ends in manager.disconnect and the coroutine    *)
(* returns.  No await lies between the exit and the finally clause.        *)
(***************************************************************************)
Close(s, e) ==
    /\ active_connections' = disconnect(active_connections, s, kind[s])
    /\ pc' = [pc EXCEPT ![s] = "closed"]
    /\ conn' = [conn EXCEPT ![s] = "DISCONNECTED"]
    /\ qry' = [qry EXCEPT ![s] = NoParams]
    /\ qunit' = [qunit EXCEPT ![s] = 0]
    /\ waited' = [waited EXCEPT ![s] = 0]
    /\ last' = [last EXCEPT ![s] = e]
    /\ out' = [out EXCEPT ![s] = <<>>]
    /\ UNCHANGED <<kind, unit_name, params>>

\* a plausible slip: the push loop starts on connect, before any message
MutConnectStartsLoop(s, k, u, acceptOk) ==
    /\ UNCHANGED metricVars
    /\ pc[s] = "idle"
    /\ kind' = [kind EXCEPT ![s] = k]
    /\ unit_name' = [unit_name EXCEPT ![s] = u]
    /\ IF acceptOk
       THEN /\ active_connections' = connect(active_connections, s, k)
            /\ pc' = [pc EXCEPT ![s] = "loop"]
            /\ conn' = [conn EXCEPT ![s] = "CONNECTED"]
            /\ last' = [last EXCEPT ![s] = Event("connect", NoMsg)]
       ELSE /\ pc' = [pc EXCEPT ![s] = "closed"]
            /\ conn' = [conn EXCEPT ![s] = "DISCONNECTED"]
            /\ last' = [last EXCEPT ![s] = Event("accept_error", NoMsg)]
            /\ UNCHANGED active_connections
    /\ UNCHANGED <<params, qry, qunit, waited, out>>

\* manager.connect: accept, then append.  A raising accept leaves the
\* endpoint before the try block and before the append.
Connect(s, k, u, acceptOk) ==
    /\ UNCHANGED metricVars
    /\ pc[s] = "idle"
    /\ kind' = [kind EXCEPT ![s] = k]
    /\ unit_name' = [unit_name EXCEPT ![s] = u]
    /\ IF acceptOk
       THEN /\ active_connections' = connect(active_connections, s, k)
            /\ pc' = [pc EXCEPT ![s] = "awaiting"]
            /\ conn' = [conn EXCEPT ![s] = "CONNECTED"]
            /\ last' = [last EXCEPT ![s] = Event("connect", NoMsg)]
       ELSE /\ pc' = [pc EXCEPT ![s] = "closed"]
            /\ conn' = [conn EXCEPT ![s] = "DISCONNECTED"]
            /\ last' = [last EXCEPT ![s] = Event("accept_error", NoMsg)]
            /\ UNCHANGED active_connections
    /\ UNCHANGED <<params, qry, qunit, waited, out>>

\* a plausible slip: a first message that cannot be used is dropped and the
\* session keeps waiting
MutRecvInitialDropsBad(s, m) ==
    /\ UNCHANGED metricVars
    /\ pc[s] = "awaiting"
    /\ conn[s] = "CONNECTED"
    /\ params' = [params EXCEPT ![s] =
                      IF m.type = "params" THEN _parse_ws_params(m) ELSE @]
    /\ pc' = [pc EXCEPT ![s] = IF m.type = "params" THEN "loop" ELSE @]
    /\ last' = [last EXCEPT ![s] =
                    Event(IF m.type = "params" THEN "init" ELSE "bad", m)]
    /\ out' = [out EXCEPT ![s] = <<>>]
    /\ UNCHANGED <<active_connections, kind, unit_name, conn, qry, qunit, waited>>

\* the first receive_text / json.loads / _parse_ws_params
RecvInitial(s, m) ==
    /\ UNCHANGED metricVars
    /\ pc[s] = "awaiting"
    /\ conn[s] = "CONNECTED"
    /\ IF m.type = "params"
       THEN /\ params' = [params EXCEPT ![s] = _parse_ws_params(m)]
            /\ pc' = [pc EXCEPT ![s] = "loop"]
            /\ last' = [last EXCEPT ![s] = Event("init", m)]
            /\ out' = [out EXCEPT ![s] = <<>>]
            /\ UNCHANGED <<active_connections, kind, unit_name, conn, qry, qunit, waited>>
       ELSE Close(s, Event("bad", m))

\* receive_text raises (WebSocketDisconnect or another receive error)
RecvDisconnect(s) ==
    /\ UNCHANGED metricVars
    /\ pc[s] \in {"awaiting", "wait"}
    /\ Close(s, Event("disconnect", NoMsg))

\* a plausible slip: the snapshot is sent without the check
MutPushNoCheck(s, q, sendOk) ==
    IF ~sendOk THEN Close(s, Event("send_error", NoMsg))
    ELSE /\ pc' = [pc EXCEPT ![s] = "wait"]
         /\ qry' = [qry EXCEPT ![s] = q]
         /\ qunit' = [qunit EXCEPT ![s] = unit_name[s]]
         /\ out' = [out EXCEPT ![s] = <<Snapshot(q)>>]
         /\ waited' = [waited EXCEPT ![s] = 0]
         /\ last' = [last EXCEPT ![s] = Event("pushed", NoMsg)]
         /\ UNCHANGED <<active_connections, kind, unit_name, conn, params>>

\* the pre-push check, send_json(response_data) and the entry of the wait
Push(s, q, sendOk) ==
    IF conn[s] # "CONNECTED" THEN Close(s, Event("not_open", NoMsg))
    ELSE IF ~sendOk THEN Close(s, Event("send_error", NoMsg))
    ELSE /\ pc' = [pc EXCEPT ![s] = "wait"]
         /\ qry' = [qry EXCEPT ![s] = q]
         /\ qunit' = [qunit EXCEPT ![s] = unit_name[s]]
         /\ out' = [out EXCEPT ![s] = <<Snapshot(q)>>]
         /\ waited' = [waited EXCEPT ![s] = 0]
         /\ last' = [last EXCEPT ![s] = Event("pushed", NoMsg)]
         /\ UNCHANGED <<active_connections, kind, unit_name, conn, params>>

\* the main query returned rows.  The standard endpoint builds and pushes
\* without awaiting; the hourly endpoint first runs its bucket queries.
QueryOk(s, sendOk) ==
    /\ UNCHANGED metricVars
    /\ pc[s] = "loop"
    /\ IF kind[s] = "standard"
       THEN Push(s, params[s], sendOk)
       ELSE /\ pc' = [pc EXCEPT ![s] = "buckets"]
            /\ qry' = [qry EXCEPT ![s] = params[s]]
            /\ qunit' = [qunit EXCEPT ![s] = unit_name[s]]
            /\ last' = [last EXCEPT ![s] = Event("qok", NoMsg)]
            /\ out' = [out EXCEPT ![s] = <<>>]
            /\ waited' = [waited EXCEPT ![s] = 0]
            /\ UNCHANGED <<active_connections, kind, unit_name, conn, params>>

\* a plausible slip: a failed bucket query is reported like a failed main
\* query, with an error message and a sleep instead of the snapshot
MutBucketsDoneReportsSkip(s, sendOk) ==
    /\ UNCHANGED metricVars
    /\ pc[s] = "buckets"
    /\ IF hrs.skipped = 0 THEN Push(s, qry[s], sendOk)
       ELSE IF conn[s] = "CONNECTED" /\ ~sendOk
       THEN Close(s, Event("qfail", NoMsg))
       ELSE /\ pc' = [pc EXCEPT ![s] = "sleep"]
            /\ out' = [out EXCEPT ![s] =
                          IF conn[s] = "CONNECTED" THEN <<ErrorMsg>> ELSE <<>>]
            /\ waited' = [waited EXCEPT ![s] = 0]
            /\ last' = [last EXCEPT ![s] = Event("qfail", NoMsg)]
            /\ UNCHANGED <<active_connections, kind, unit_name, conn, params,
                           qry, qunit>>

\* the hourly bucket loop is over (a failed bucket query is skipped)
BucketsDone(s, sendOk) ==
    /\ UNCHANGED metricVars
    /\ pc[s] = "buckets"
    /\ Push(s, qry[s], sendOk)

\* except asyncio.TimeoutError / except Exception around the main query
QueryError(s, why, sendOk) ==
    /\ UNCHANGED metricVars
    /\ pc[s] = "loop"
    /\ IF conn[s] = "CONNECTED" /\ ~sendOk
       THEN Close(s, Event(why, NoMsg))
       ELSE /\ pc' = [pc EXCEPT ![s] = "sleep"]
            /\ qry' = [qry EXCEPT ![s] = params[s]]
            /\ qunit' = [qunit EXCEPT ![s] = unit_name[s]]
            /\ out' = [out EXCEPT ![s] =
                          IF conn[s] = "CONNECTED" THEN <<ErrorMsg>> ELSE <<>>]
            /\ waited' = [waited EXCEPT ![s] = 0]
            /\ last' = [last EXCEPT ![s] = Event(why, NoMsg)]
            /\ UNCHANGED <<active_connections, kind, unit_name, conn, params>>

QueryTimeout(s, sendOk) == QueryError(s, "qtimeout", sendOk)

QueryFail(s, sendOk) == QueryError(s, "qfail", sendOk)

\* a plausible slip: a one-second sleep
MutSleepDoneShort(s) ==
    /\ UNCHANGED metricVars
    /\ pc[s] = "sleep"
    /\ pc' = [pc EXCEPT ![s] = "loop"]
    /\ waited' = [waited EXCEPT ![s] = waited[s] + 1]
    /\ out' = [out EXCEPT ![s] = <<>>]
    /\ UNCHANGED <<active_connections, kind, unit_name, conn, params, qry, qunit, last>>

\* asyncio.sleep(PUSH_INTERVAL) returns; continue
SleepDone(s) ==
    /\ UNCHANGED metricVars
    /\ pc[s] = "sleep"
    /\ pc' = [pc EXCEPT ![s] = "loop"]
    /\ waited' = [waited EXCEPT ![s] = waited[s] + PUSH_INTERVAL]
    /\ out' = [out EXCEPT ![s] = <<>>]
    /\ UNCHANGED <<active_connections, kind, unit_name, conn, params, qry, qunit, last>>

\* a plausible slip: after the acknowledgement the rest of the interval is
\* slept out
MutHeartbeatSleeps(s, t, sendOk) ==
    /\ UNCHANGED metricVars
    /\ pc[s] = "wait"
    /\ conn[s] = "CONNECTED"
    /\ IF ~sendOk THEN Close(s, Event("heartbeat", HeartbeatMsg))
       ELSE /\ pc' = [pc EXCEPT ![s] = "loop"]
            /\ out' = [out EXCEPT ![s] = <<AckMsg>>]
            /\ waited' = [waited EXCEPT ![s] = PUSH_INTERVAL]
            /\ qry' = [qry EXCEPT ![s] = NoParams]
            /\ qunit' = [qunit EXCEPT ![s] = 0]
            /\ last' = [last EXCEPT ![s] = Event("heartbeat", HeartbeatMsg)]
            /\ UNCHANGED <<active_connections, kind, unit_name, conn, params>>

\* wait_for(receive_text(), PUSH_INTERVAL) returns a heartbeat after t seconds
RecvHeartbeat(s, t, sendOk) ==
    /\ UNCHANGED metricVars
    /\ pc[s] = "wait"
    /\ conn[s] = "CONNECTED"
    /\ IF ~sendOk THEN Close(s, Event("heartbeat", HeartbeatMsg))
       ELSE /\ pc' = [pc EXCEPT ![s] = "loop"]
            /\ out' = [out EXCEPT ![s] = <<AckMsg>>]
            /\ waited' = [waited EXCEPT ![s] = waited[s] + t]
            /\ qry' = [qry EXCEPT ![s] = NoParams]
            /\ qunit' = [qunit EXCEPT ![s] = 0]
            /\ last' = [last EXCEPT ![s] = Event("heartbeat", HeartbeatMsg)]
            /\ UNCHANGED <<active_connections, kind, unit_name, conn, params>>

\* a plausible slip: an update without a working mode keeps the session's mode
MutRecvUpdateKeepsMode(s, m, t) ==
    /\ UNCHANGED metricVars
    /\ pc[s] = "wait"
    /\ conn[s] = "CONNECTED"
    /\ IF m.type = "params"
       THEN /\ params' = [params EXCEPT ![s] =
                             [window |-> m.window,
                              mode |-> IF m.mode = Absent THEN @.mode ELSE m.mode]]
            /\ pc' = [pc EXCEPT ![s] = "loop"]
            /\ out' = [out EXCEPT ![s] = <<>>]
            /\ waited' = [waited EXCEPT ![s] = waited[s] + t]
            /\ qry' = [qry EXCEPT ![s] = NoParams]
            /\ qunit' = [qunit EXCEPT ![s] = 0]
            /\ last' = [last EXCEPT ![s] = Event("update", m)]
            /\ UNCHANGED <<active_connections, kind, unit_name, conn>>
       ELSE Close(s, Event("bad", m))

\* a plausible slip: a unit name in the message replaces the session's unit
MutRecvUpdateTakesUnit(s, m, t) ==
    /\ UNCHANGED metricVars
    /\ pc[s] = "wait"
    /\ conn[s] = "CONNECTED"
    /\ IF m.type = "params"
       THEN /\ params' = [params EXCEPT ![s] = _parse_ws_params(m)]
            /\ unit_name' = [unit_name EXCEPT ![s] =
                                 IF m.unit = NoUnit THEN @ ELSE m.unit]
            /\ pc' = [pc EXCEPT ![s] = "loop"]
            /\ out' = [out EXCEPT ![s] = <<>>]
            /\ waited' = [waited EXCEPT ![s] = waited[s] + t]
            /\ qry' = [qry EXCEPT ![s] = NoParams]
            /\ qunit' = [qunit EXCEPT ![s] = 0]
            /\ last' = [last EXCEPT ![s] = Event("update", m)]
            /\ UNCHANGED <<active_connections, kind, conn>>
       ELSE Close(s, Event("bad", m))

\* ... returns a non-heartbeat message after t seconds
RecvUpdate(s, m, t) ==
    /\ UNCHANGED metricVars
    /\ pc[s] = "wait"
    /\ conn[s] = "CONNECTED"
    /\ IF m.type = "params"
       THEN /\ params' = [params EXCEPT ![s] = _parse_ws_params(m)]
            /\ pc' = [pc EXCEPT ![s] = "loop"]
            /\ out' = [out EXCEPT ![s] = <<>>]
            /\ waited' = [waited EXCEPT ![s] = waited[s] + t]
            /\ qry' = [qry EXCEPT ![s] = NoParams]
            /\ qunit' = [qunit EXCEPT ![s] = 0]
            /\ last' = [last EXCEPT ![s] = Event("update", m)]
            /\ UNCHANGED <<active_connections, kind, unit_name, conn>>
       ELSE Close(s, Event("bad", m))

\* ... raises asyncio.TimeoutError: pass
WaitTimeout(s) ==
    /\ UNCHANGED metricVars
    /\ pc[s] = "wait"
    /\ pc' = [pc EXCEPT ![s] = "loop"]
    /\ out' = [out EXCEPT ![s] = <<>>]
    /\ waited' = [waited EXCEPT ![s] = waited[s] + PUSH_INTERVAL]
    /\ qry' = [qry EXCEPT ![s] = NoParams]
    /\ qunit' = [qunit EXCEPT ![s] = 0]
    /\ last' = [last EXCEPT ![s] = Event("idle", NoMsg)]
    /\ UNCHANGED <<active_connections, kind, unit_name, conn, params>>

\* the peer goes away: client_state is no longer CONNECTED
ConnLost(s) ==
    /\ UNCHANGED metricVars
    /\ pc[s] \notin {"idle", "closed"}
    /\ conn[s] = "CONNECTED"
    /\ conn' = [conn EXCEPT ![s] = "DISCONNECTED"]
    /\ UNCHANGED <<active_connections, pc, kind, unit_name, params, qry, qunit, waited, last, out>>

\* the steps of session s's own coroutine, inputs drawn from W, M, T and U
ServerStep(s, W, M, T, U) ==
    \/ \E m \in {ParamMsgFor(w, md, u) : w \in W, md \in M, u \in U}
                  \cup {HeartbeatMsg, BadMsg} :
           RecvInitial(s, m)
    \/ RecvDisconnect(s)
    \/ \E sendOk \in BOOLEAN : QueryOk(s, sendOk)
    \/ \E sendOk \in BOOLEAN : BucketsDone(s, sendOk)
    \/ \E sendOk \in BOOLEAN : QueryTimeout(s, sendOk)
    \/ \E sendOk \in BOOLEAN : QueryFail(s, sendOk)
    \/ SleepDone(s)
    \/ \E t \in T, sendOk \in BOOLEAN : RecvHeartbeat(s, t, sendOk)
    \/ \E m \in {ParamMsgFor(w, md, u) : w \in W, md \in M, u \in U} \cup {BadMsg},
          t \in T :
           RecvUpdate(s, m, t)
    \/ WaitTimeout(s)

\* unit names are interchangeable; what matters is whether a message names
\* the unit of the session's path or another one
PathUnits == {1}

SessionStep(s, W, M, T, U) ==
    \/ \E k \in Kinds, u \in PathUnits, acceptOk \in BOOLEAN : Connect(s, k, u, acceptOk)
    \/ ServerStep(s, W, M, T, U)
    \/ ConnLost(s)

MsgModes == {Absent, "mode2"}
ArrivalTimes == {0, PUSH_INTERVAL - 1}
MsgUnits == {NoUnit} \cup Units

\* an input of a session: a connection event, an inbound message (arriving
\* after t seconds of the wait), the outcome of the main query, the outcome
\* ok of the accept or of the send the step makes
Input(type, msg, t, ok) == [type |-> type, msg |-> msg, t |-> t, ok |-> ok]
NoInput == Input("none", NoMsg, 0, TRUE)
DriveInit == drive = [turn |-> 1, ev |-> NoInput]

vars == <<sessionVars, metricVars, drive>>

Init ==
    /\ SessionInit /\ MetricsInit /\ BreakInit /\ HourlyInit /\ ReportInit
    /\ DriveInit

\* any number of sessions on both channels, interleaved
Next ==
    /\ \E s \in Sessions : SessionStep(s, {1}, {Absent}, {0}, {NoUnit})
    /\ UNCHANGED drive
Spec == Init /\ [][Next]_vars

\* one session with every input
NextSession ==
    /\ SessionStep(1, Windows, MsgModes, ArrivalTimes, MsgUnits)
    /\ UNCHANGED drive
SpecSession == Init /\ [][NextSession]_vars

\* the event loop runs every coroutine that can take a step
SpecSessionFair ==
    SpecSession
    /\ WF_vars(ServerStep(1, Windows, MsgModes, ArrivalTimes, MsgUnits)
               /\ UNCHANGED drive)

\* the metrics path alone
NextMetrics == MetricsNext /\ UNCHANGED drive
SpecMetrics == Init /\ [][NextMetrics]_vars

\* the metrics path on rows as given
NextRows ==
    /\ \/ RequestAsGiven
       \/ Query
       \/ BuildStandard
       \/ BuildHourly
       \/ BuildHistorical
    /\ UNCHANGED drive
SpecRows == Init /\ [][NextRows]_vars

\* the metrics path on windows of either orientation
RequestOperating == RequestFrom(OperatingRequests)

NextOperating ==
    /\ \/ RequestOperating
       \/ Query
       \/ BuildStandard
       \/ BuildHourly
       \/ BuildHistorical
    /\ UNCHANGED drive
SpecOperating == Init /\ [][NextOperating]_vars

\* the break calendar alone
NextBreaks == BreaksNext /\ UNCHANGED drive
SpecBreaks == Init /\ [][NextBreaks]_vars

\* the hourly breakdown alone
NextHourly == HourlyNext /\ UNCHANGED drive
SpecHourly == Init /\ [][NextHourly]_vars

\* the multi-unit report alone
NextReport == ReportNext /\ UNCHANGED drive
SpecReport == Init /\ [][NextReport]_vars

(***************************************************************************)
(* The two channels side by side: session 1 is opened on the standard      *)
(* endpoint, session 2 on the hourly endpoint, and both are given the same *)
(* inputs in the same order.  The hourly session runs its bucket loop      *)
(* between the main query and the pre-push check.                          *)
(***************************************************************************)
StandardSession == 1
HourlySession == 2
ChannelOf(s) == IF s = StandardSession THEN "standard" ELSE "hourly"

InboundMsgs ==
    {ParamMsg(w, md) : w \in Windows, md \in MsgModes} \cup {HeartbeatMsg, BadMsg}

Inputs ==
    {Input("connect", NoMsg, 0, ok) : ok \in BOOLEAN}
    \cup {Input("initial", m, 0, TRUE) : m \in InboundMsgs}
    \cup {Input("disconnect", NoMsg, 0, TRUE)}
    \cup {Input(q, NoMsg, 0, ok) : q \in {"qok", "qtimeout", "qfail"}, ok \in BOOLEAN}
    \cup {Input("slept", NoMsg, 0, TRUE)}
    \cup {Input("heartbeat", HeartbeatMsg, t, ok) : t \in ArrivalTimes, ok \in BOOLEAN}
    \cup {Input("update", m, t, TRUE) : m \in InboundMsgs \ {HeartbeatMsg},
                                        t \in ArrivalTimes}
    \cup {Input("quiet", NoMsg, 0, TRUE)}
    \cup {Input("lost", NoMsg, 0, TRUE)}

\* session s takes the step that input ev drives
Apply(s, ev) ==
    \/ ev.type = "connect" /\ Connect(s, ChannelOf(s), 1, ev.ok)
    \/ ev.type = "initial" /\ RecvInitial(s, ev.msg)
    \/ ev.type = "disconnect" /\ RecvDisconnect(s)
    \/ ev.type = "qok" /\ QueryOk(s, ev.ok)
    \/ ev.type = "qtimeout" /\ QueryTimeout(s, ev.ok)
    \/ ev.type = "qfail" /\ QueryFail(s, ev.ok)
    \/ ev.type = "slept" /\ SleepDone(s)
    \/ ev.type = "heartbeat" /\ RecvHeartbeat(s, ev.t, ev.ok)
    \/ ev.type = "update" /\ RecvUpdate(s, ev.msg, ev.t)
    \/ ev.type = "quiet" /\ WaitTimeout(s)
    \/ ev.type = "lost" /\ ConnLost(s)

\* the standard session consumes the next input, one of I
LeadOn(I) ==
    /\ drive.turn = 1
    /\ pc[HourlySession] # "buckets"
    /\ hrs.stage = "idle"
    /\ \E ev \in I :
          /\ Apply(StandardSession, ev)
          /\ drive' = [turn |-> 2, ev |-> ev]

Lead == LeadOn(Inputs)

\* the hourly session consumes the same input
Follow ==
    /\ drive.turn = 2
    /\ Apply(HourlySession, drive.ev)
    /\ drive' = [drive EXCEPT !.turn = 1]

\* the hourly session's bucket loop, its queries succeeding or failing
BucketLoop ==
    /\ drive.turn = 1
    /\ pc[HourlySession] = "buckets"
    /\ \/ HourlyStartWs
       \/ HourlyBucketOk
       \/ HourlyBucketFail
    /\ UNCHANGED drive

\* ... is over: the pre-push check and the send, with the outcome the
\* standard session's send had
BucketLoopEnd ==
    /\ drive.turn = 1
    /\ hrs.stage = "done"
    /\ BucketsDone(HourlySession, drive.ev.ok)
    /\ UNCHANGED drive

\* the breakdown has been pushed (or dropped)
BucketLoopReturn ==
    /\ drive.turn = 1
    /\ pc[HourlySession] # "buckets"
    /\ HourlyReturn
    /\ UNCHANGED drive

NextChannels ==
    \/ Lead
    \/ Follow
    \/ BucketLoop
    \/ BucketLoopEnd
    \/ BucketLoopReturn
SpecChannels == Init /\ [][NextChannels]_vars

(***************************************************************************)
(* Both hourly breakdowns: requests of get_historical_hourly_data next to  *)
(* the two sessions, the sessions on a plain run (connect, parameters,     *)
(* queries that succeed, a lost connection)                                *)
(***************************************************************************)
PlainInputs ==
    {Input("connect", NoMsg, 0, TRUE),
     Input("initial", ParamMsg(1, Absent), 0, TRUE),
     Input("qok", NoMsg, 0, TRUE),
     Input("qok", NoMsg, 0, FALSE),
     Input("quiet", NoMsg, 0, TRUE),
     Input("lost", NoMsg, 0, TRUE)}

LeadPlain == LeadOn(PlainInputs)

\* a request of the REST endpoint, from its start to its response
RestBreakdown ==
    /\ drive.turn = 1
    /\ pc[HourlySession] # "buckets"
    /\ \/ HourlyStartRest
       \/ hrs.caller = "rest" /\ HourlyBucketOk
       \/ hrs.caller = "rest" /\ HourlyBucketFail
       \/ hrs.caller = "rest" /\ HourlyReturn
    /\ UNCHANGED drive

NextBreakdowns ==
    \/ LeadPlain
    \/ Follow
    \/ BucketLoop
    \/ BucketLoopEnd
    \/ BucketLoopReturn
    \/ RestBreakdown
SpecBreakdowns == Init /\ [][NextBreakdowns]_vars

(***************************************************************************)
(* Session protocol and registry: properties                               *)
(***************************************************************************)
Streaming == {"loop", "buckets", "wait", "sleep"}
Registered(s) == \E k \in Kinds : s \in Range(active_connections[k])
QueryFailures == {"qtimeout", "qfail"}

\* the step of s that handles a timed-out or failed main query
FailStep(s) == pc[s] = "loop" /\ pc'[s] # "loop" /\ last'[s].ev \in QueryFailures
\* the step of s that consumes a parameter update / a heartbeat in the wait
UpdateStep(s) == pc[s] = "wait" /\ last'[s].ev = "update"
HeartbeatStep(s) == pc[s] = "wait" /\ last'[s].ev = "heartbeat"
\* the step of s that leaves the top of the loop: its main query
QueryStep(s) == pc[s] = "loop" /\ pc'[s] # "loop"

\* C1: in every reachable state the registry list of each channel holds
\* exactly the sessions of that channel that are in AwaitingParams or
\* Streaming, each once (so a session that reached Closed by any path is
\* gone); disconnecting a registered session removes its entry and nothing
\* else, and disconnecting an absent session changes nothing.
C1_RegistryExact ==
    \A k \in Kinds :
        LET reg == active_connections[k]
            members == {s \in Sessions :
                            kind[s] = k /\ pc[s] \in {"awaiting"} \cup Streaming}
        IN /\ Range(reg) = members
           /\ Len(reg) = Cardinality(members)
           /\ \A s \in Sessions :
                 LET after == disconnect(active_connections, s, k)
                 IN IF s \in members
                    THEN /\ after[k] = SelectSeq(reg, LAMBDA x : x # s)
                         /\ \A j \in Kinds \ {k} : after[j] = active_connections[j]
                    ELSE after = active_connections

\* two sessions of one channel: one left at the pre-push check, the other
\* is still registered, alone
C1_Witness ==
    \E s, r \in Sessions :
        /\ s # r /\ kind[s] = kind[r]
        /\ pc[s] = "closed" /\ last[s].ev = "not_open"
        /\ pc[r] = "wait"
        /\ active_connections[kind[r]] = <<r>>

DetectedNotOpen(s) ==
    \/ pc[s] = "sleep" /\ out[s] = <<>>
    \/ last[s].ev = "not_open"

\* C3 (as claimed): wherever the session finds its connection not open (the
\* pre-push check, the check in the timeout/failure branch) it eventually
\* reaches Closed and is deregistered, whatever the later query outcomes.
C3_Orig ==
    \A s \in Sessions :
        DetectedNotOpen(s) ~> (pc[s] = "closed" /\ ~Registered(s))

\* C4: a consumed parameter update carrying a window and a mode replaces the
\* session's window and mode by the message's values and leads straight to
\* the top of the loop, before the interval is over; parameters change by
\* nothing but a consumed parameter message; every main query uses the
\* parameters the session holds, and every snapshot pushed was computed
\* from them.
C4_UpdateApplied ==
    [][\A s \in Sessions :
        /\ (UpdateStep(s) /\ last'[s].msg.mode # Absent) =>
              /\ params'[s] = [window |-> last'[s].msg.window,
                               mode |-> last'[s].msg.mode]
              /\ pc'[s] = "loop"
              /\ waited'[s] < PUSH_INTERVAL
              /\ out'[s] = <<>>
        /\ params'[s] # params[s] =>
              /\ last'[s].ev \in {"init", "update"}
              /\ pc[s] \in {"awaiting", "wait"}
        /\ (QueryStep(s) /\ pc'[s] # "closed") => qry'[s] = params[s]
        /\ \A m \in Range(out'[s]) :
              m.type = "snapshot" =>
                  m.window = params'[s].window /\ m.mode = params'[s].mode
      ]_vars

\* an update to window 2 / mode2 has just been consumed, early in the wait
C4_Witness ==
    \E s \in Sessions :
        /\ pc[s] = "loop" /\ last[s].ev = "update"
        /\ last[s].msg = ParamMsg(2, "mode2")
        /\ params[s] = [window |-> 2, mode |-> "mode2"]
        /\ waited[s] < PUSH_INTERVAL

\* C5 (as claimed): a heartbeat consumed in the wait always yields exactly
\* one acknowledgement and an immediate next query, parameters unchanged;
\* no acknowledgement without a consumed heartbeat.
C5_Orig ==
    [][\A s \in Sessions :
        /\ HeartbeatStep(s) =>
              /\ out'[s] = <<AckMsg>>
              /\ pc'[s] = "loop"
              /\ waited'[s] < PUSH_INTERVAL
              /\ params'[s] = params[s]
        /\ AckMsg \in Range(out'[s]) => last'[s].ev = "heartbeat"
        /\ (QueryStep(s) /\ last[s].ev = "heartbeat") =>
              last'[s].ev \in {"qok", "pushed", "not_open", "send_error"} \cup QueryFailures
      ]_vars

\* C5 (amended): a heartbeat consumed in the wait leaves the parameters
\* unchanged; unless sending the acknowledgement raises (which closes the
\* session with nothing sent), exactly one acknowledgement is sent and the
\* session is at the top of the loop before the interval is over, where its
\* next step is the main query.  No acknowledgement is sent without a
\* consumed heartbeat.
C5_HeartbeatAck ==
    [][\A s \in Sessions :
        /\ HeartbeatStep(s) =>
              /\ params'[s] = params[s]
              /\ \/ pc'[s] = "loop" /\ out'[s] = <<AckMsg>> /\ waited'[s] < PUSH_INTERVAL
                 \/ pc'[s] = "closed" /\ out'[s] = <<>>
        /\ AckMsg \in Range(out'[s]) => last'[s].ev = "heartbeat"
        /\ (QueryStep(s) /\ last[s].ev = "heartbeat") =>
              last'[s].ev \in {"qok", "pushed", "not_open", "send_error"} \cup QueryFailures
      ]_vars

\* a heartbeat was acknowledged late in the wait and the session is about to
\* query
C5_Witness ==
    \E s \in Sessions :
        /\ pc[s] = "loop" /\ last[s].ev = "heartbeat"
        /\ out[s] = <<AckMsg>>
        /\ waited[s] = PUSH_INTERVAL - 1

(***************************************************************************)
(* Window resolution and metrics: properties                               *)
(***************************************************************************)
Computed == stage \in {"computed", "built"}
BeforeEnd == req.current_time # None /\ req.current_time < req.end_time

\* C6 (as claimed): when now is before the requested end the window is
\* historical: the query upper bound and the operating-time basis end at
\* window.end.
C6_Orig ==
    (Computed /\ BeforeEnd) =>
        /\ res.final_query_end_time = req.end_time
        /\ res.actual_end_time = req.end_time

\* C6 (amended): when now is before the requested end, get_production_data
\* treats the window as live: the query upper bound and the operating-time
\* basis end at max(window.start, now), not at window.end.
C6_LiveBeforeEnd ==
    (Computed /\ BeforeEnd) =>
        /\ res.final_query_end_time = Max(req.start_time, req.current_time)
        /\ res.actual_end_time = Max(req.start_time, req.current_time)
        /\ res.operation_time =
               Max(res.actual_end_time - req.start_time
                   - calculate_break_time(req.start_time, res.actual_end_time,
                                          req.working_mode), 0)

\* ten minutes before the end of 09:30-10:30: the basis is 09:30-10:20, less
\* the break 10:00-10:15
C6_Witness ==
    /\ stage = "computed"
    /\ req.start_time = HM(9, 30) /\ req.end_time = HM(10, 30)
    /\ req.current_time = HM(10, 20)
    /\ res.final_query_end_time = HM(10, 20)
    /\ res.operation_time = 35 * 60

\* C7 (as claimed): within one request or push cycle every place that
\* decides live versus historical reaches the decision and the effective end
\* of get_production_data.
C7_Orig ==
    stage = "built" =>
        \A d \in res.decisions :
            /\ d.live = IsLive(req.current_time, req.end_time)
            /\ d.effective_end = res.actual_end_time

\* C8 (as claimed): every model record has totalCount = successCount +
\* failCount.
C8_Orig ==
    Computed =>
        \A i \in 1..Len(res.models) :
            res.models[i].total_qty
                = res.models[i].success_qty + res.models[i].fail_qty

\* the 1-hour historical window 08:00-09:00 (no break in it) with the row
\* 80 / 20 / 100
RoundTripCase(i) ==
    /\ req.start_time = HM(8, 0) /\ req.end_time = HM(9, 0)
    /\ \/ req.current_time = None
       \/ req.current_time - req.end_time > FiveMinutes
    /\ req.rows[i].success = 80 /\ req.rows[i].fail = 20
    /\ req.rows[i].target = 100

\* C9 (as claimed): for a target-bearing model performance is
\* (successCount + failCount) / theoreticalQty with theoreticalQty =
\* operatingHours * targetRate (0 when that is 0); the row 80 / 20 / 100 over
\* a 1-hour historical window without breaks gives quality 0.8,
\* theoreticalQty 100 and performance 1.0.
C9_Orig ==
    Computed =>
        \A i \in 1..Len(res.models) :
            LET m == res.models[i]
                theoretical == res.operation_time * m.target
            IN HasTarget(m.target) =>
                  /\ m.theoretical_qty = Frac(theoretical, SecondsPerHour)
                  /\ m.performance =
                         IF theoretical = 0 THEN Zero
                         ELSE Frac((m.success_qty + m.fail_qty) * SecondsPerHour,
                                   theoretical)
                  /\ RoundTripCase(i) =>
                        /\ m.quality = [n |-> 4, d |-> 5]
                        /\ m.theoretical_qty = [n |-> 100, d |-> 1]
                        /\ m.performance = [n |-> 1, d |-> 1]

\* C10: in every batch returned by get_production_data, and in the model
\* list the standard channel makes of it: if no row has a positive target
\* rate every performance is null; otherwise exactly the rows with a
\* positive target rate have a numeric performance (0 when their theoretical
\* quantity is 0) and every other row has performance null and
\* theoreticalQty 0.
C10_PerformanceNull ==
    Computed =>
        LET positive == {i \in 1..Len(req.rows) :
                             req.rows[i].target # None /\ req.rows[i].target > 0}
        IN /\ Len(res.models) = Len(req.rows)
           /\ \A i \in 1..Len(res.models) :
                 LET m == res.models[i]
                 IN IF i \in positive
                    THEN /\ m.performance # Null
                         /\ m.performance.d > 0
                         /\ m.theoretical_qty = Zero => m.performance = Zero
                    ELSE /\ m.performance = Null
                         /\ m.theoretical_qty = Zero

\* a standard-channel model list with a target-bearing model that reads 0
\* (no operating time) beside a model with a negative target
C10_Witness ==
    /\ stage = "built" /\ res.caller = "standard"
    /\ res.operation_time = 0
    /\ \E i, j \in 1..Len(res.models) :
          /\ res.models[i].target = 100
          /\ res.models[i].performance = Zero
          /\ res.models[j].target < 0 /\ res.models[j].target # None
          /\ res.models[j].performance = Null

(***************************************************************************)
(* Break calendar: properties                                              *)
(***************************************************************************)
\* the length of the intersection of [a1, a2] and [b1, b2]
IntersectionLength(a1, a2, b1, b2) == Max(0, Min(a2, b2) - Max(a1, b1))

\* the occurrence of a break that starts on calendar day d
OccurrenceStart(b, d) == d * SecondsPerDay + b.start
OccurrenceEnd(b, d) ==
    d * SecondsPerDay + b.end + (IF b.end < b.start THEN SecondsPerDay ELSE 0)

\* every calendar day an occurrence overlapping a window of the model can
\* start on
AllDays == 0..(MaxDays + 1)

RECURSIVE ReferenceOverDays(_, _, _, _)
ReferenceOverDays(start_time, end_time, b, days) ==
    IF days = {} THEN 0
    ELSE LET d == CHOOSE x \in days : TRUE
         IN IntersectionLength(start_time, end_time,
                               OccurrenceStart(b, d), OccurrenceEnd(b, d))
            + ReferenceOverDays(start_time, end_time, b, days \ {d})

RECURSIVE ReferenceOverCodes(_, _, _)
ReferenceOverCodes(start_time, end_time, codes) ==
    IF codes = {} THEN 0
    ELSE LET c == CHOOSE x \in codes : TRUE
         IN ReferenceOverDays(start_time, end_time, SHIFT_BREAKS[c], AllDays)
            + ReferenceOverCodes(start_time, end_time, codes \ {c})

C12_BreakReference ==
    /\ brk.call = "mode" =>
          LET wm == IF brk.working_mode \in {"mode1", "mode2", "mode3"}
                    THEN brk.working_mode ELSE "mode1"
          IN brk.total = ReferenceOverCodes(brk.start_time, brk.end_time,
                                            Range(WORKING_MODE_BREAKS[wm]))
    /\ (brk.call = "break" /\ brk.break_info.start <= brk.break_info.end) =>
          /\ brk.total = ReferenceOverDays(brk.start_time, brk.end_time,
                                           brk.break_info, AllDays)
          /\ (\A d \in AllDays :
                  \/ OccurrenceEnd(brk.break_info, d) <= brk.start_time
                  \/ brk.end_time <= OccurrenceStart(brk.break_info, d))
                => brk.total = 0
          /\ (/\ brk.break_info = [start |-> HM(0, 0), end |-> HM(0, 30)]
              /\ DateOf(brk.start_time) = DateOf(brk.end_time)
              /\ brk.start_time <= OccurrenceStart(brk.break_info,
                                                   DateOf(brk.start_time))
              /\ OccurrenceEnd(brk.break_info, DateOf(brk.start_time))
                     <= brk.end_time)
                => brk.total = 1800

\* an unrecognized mode over 24 hours from 10:05: break a on both days (600
\* and 300 seconds) and b, e, f, h, i once each
C12_Witness ==
    /\ brk.call = "mode" /\ brk.working_mode = "modeX"
    /\ brk.start_time = SecondsPerDay + HM(10, 5)
    /\ brk.end_time = 2 * SecondsPerDay + HM(10, 5)
    /\ brk.total = 600 + 1800 + 1800 + 900 + 900 + 1800 + 300

(***************************************************************************)
(* Hourly breakdown: properties                                            *)
(***************************************************************************)
HourlyDone == hrs.stage = "done"
Boundaries(hourly_data) ==
    [i \in 1..Len(hourly_data) |->
        <<hourly_data[i].hour_start, hourly_data[i].hour_end>>]

\* a snapshot of the channel, past the grace period, whose one bucket is the
\* whole window and was computed from the rows the main query returned
SameRowsOneBucket ==
    /\ hrs.caller = "ws"
    /\ hrs.current_time - hrs.end_time > FiveMinutes
    /\ hrs.skipped = 0
    /\ Boundaries(hrs.hourly_data) = << <<hrs.start_time, hrs.end_time>> >>
    /\ hrs.hourly_data[1].success_qty = SumField(hrs.raw_data, "success_qty")
    /\ hrs.hourly_data[1].fail_qty = SumField(hrs.raw_data, "fail_qty")

\* C13 (as claimed): in every hourly result, of the REST endpoint and of the
\* hourly channel, the window-level total performance is (sum of the
\* returned buckets' totalQty) / (sum of the returned buckets'
\* theoreticalQty), and 0 when that denominator is 0.  Stated for every
\* result of the REST endpoint and, on the channel, for the snapshots whose
\* single bucket holds the very rows of the main query.
C13_Orig ==
    (HourlyDone /\ (hrs.caller = "rest" \/ SameRowsOneBucket)) =>
        hrs.total_performance =
            Ratio(SumField(hrs.hourly_data, "total_qty"),
                  SumTheoretical(hrs.hourly_data))

\* C14: for a window with start < end that the breakdown does not treat as
\* live (the REST endpoint; on the channel, now more than 5 minutes away
\* from window.end, which includes every now past the grace period), when
\* every bucket query succeeds the returned buckets are contiguous: the
\* first starts at window.start floored to the hour, each later one starts
\* where the previous one ended, the last ends at window.end, and every
\* bucket but the last is exactly one hour long; 10:00-12:30 yields exactly
\* [10:00,11:00), [11:00,12:00), [12:00,12:30).
C14_BucketsContiguous ==
    (/\ HourlyDone
     /\ hrs.start_time < hrs.end_time
     /\ hrs.skipped = 0
     /\ ~hrs.is_live_data) =>
        LET hd == hrs.hourly_data
            n == Len(hd)
        IN /\ n >= 1
           /\ hd[1].hour_start = FloorToHour(hrs.start_time)
           /\ hd[n].hour_end = hrs.end_time
           /\ \A i \in 2..n : hd[i].hour_start = hd[i - 1].hour_end
           /\ \A i \in 1..(n - 1) :
                 hd[i].hour_end - hd[i].hour_start = SecondsPerHour
           /\ hd[n].hour_start < hd[n].hour_end
           /\ hd[n].hour_end - hd[n].hour_start <= SecondsPerHour
           /\ (hrs.start_time = HM(10, 0) /\ hrs.end_time = HM(12, 30)) =>
                 Boundaries(hd) = << <<HM(10, 0), HM(11, 0)>>,
                                     <<HM(11, 0), HM(12, 0)>>,
                                     <<HM(12, 0), HM(12, 30)>> >>

\* the channel has pushed the breakdown of 09:30-10:30 an hour after its
\* end: the buckets [09:00,10:00) and [10:00,10:30)
C14_Witness ==
    /\ HourlyDone /\ hrs.caller = "ws"
    /\ hrs.skipped = 0 /\ ~hrs.is_live_data
    /\ hrs.current_time > hrs.end_time + FiveMinutes
    /\ Boundaries(hrs.hourly_data) = << <<HM(9, 0), HM(10, 0)>>,
                                        <<HM(10, 0), HM(10, 30)>> >>

(***************************************************************************)
(* Multi-unit report: properties                                           *)
(***************************************************************************)
\* the queries of the request that succeeded, in order
Succeeded == SelectSeq(rpt.log, LAMBDA l : l.outcome = "ok")

\* what the unit of a succeeded query reports when it is the only unit asked
EntryAlone(l) ==
    UnitEntry(get_production_data(rpt.start_time, rpt.end_time, rpt.current_time,
                                  rpt.working_mode, l.rows).models)

RECURSIVE SumEntries(_, _)
SumEntries(unit_data, f) ==
    IF unit_data = <<>> THEN 0
    ELSE Head(unit_data).entry[f] + SumEntries(Tail(unit_data), f)

\* sum(unit[f] * unit[w]) over the entries
RECURSIVE SumWeighted(_, _, _)
SumWeighted(unit_data, f, w) ==
    IF unit_data = <<>> THEN Zero
    ELSE FracAdd(FracMulInt(Head(unit_data).entry[f], Head(unit_data).entry[w]),
                 SumWeighted(Tail(unit_data), f, w))

WeightedMean(unit_data, f, w) ==
    IF SumEntries(unit_data, w) > 0
    THEN Frac(SumWeighted(unit_data, f, w).n,
              SumWeighted(unit_data, f, w).d * SumEntries(unit_data, w))
    ELSE Zero

Listening(s) == pc[s] = "wait"

\* C16 (as claimed): a parameter message sent while the session is in
\* Streaming is eventually consumed, wherever in the iteration it arrives
\* and also when queries keep failing.  A message is consumed only where the
\* session reads: so a session in Streaming whose connection stays open
\* eventually reads inbound messages (or has closed).
C16_Orig ==
    \A s \in Sessions :
        (pc[s] \in Streaming /\ conn[s] = "CONNECTED")
            ~> (Listening(s) \/ pc[s] = "closed" \/ conn[s] # "CONNECTED")

\* C17 (as claimed): a consumed parameter message that carries a unit name
\* replaces the session's unit together with the window and the mode, and
\* later queries are issued for the new unit; without a unit name the unit
\* is unchanged.
C17_Orig ==
    [][\A s \in Sessions :
        /\ UpdateStep(s) =>
              /\ params'[s] = _parse_ws_params(last'[s].msg)
              /\ unit_name'[s] = IF last'[s].msg.unit = NoUnit
                                 THEN unit_name[s] ELSE last'[s].msg.unit
        /\ (QueryStep(s) /\ pc'[s] # "closed") => qunit'[s] = unit_name[s]
      ]_vars

\* C17 (amended): the session's unit is the unit named in the path it was
\* opened on; a consumed parameter message, with or without a unit name,
\* replaces the window and the mode only, and every query of the session is
\* issued for the unit of the path.
C17_UnitFixed ==
    [][\A s \in Sessions :
        /\ UpdateStep(s) =>
              /\ params'[s] = _parse_ws_params(last'[s].msg)
              /\ unit_name'[s] = unit_name[s]
        /\ pc[s] # "idle" => unit_name'[s] = unit_name[s]
        /\ (QueryStep(s) /\ pc'[s] # "closed") => qunit'[s] = unit_name[s]
      ]_vars

\* an update naming unit 2 has just been consumed by a session opened for
\* unit 1: window and mode are the message's, the unit is still 1
C17_Witness ==
    \E s \in Sessions :
        /\ pc[s] = "loop"
        /\ last[s] = Event("update", ParamMsgFor(2, "mode2", 2))
        /\ params[s] = [window |-> 2, mode |-> "mode2"]
        /\ unit_name[s] = 1

\* the step that ends a successful iteration: the pre-push check and the send
PushStep(s) ==
    /\ pc[s] \in {"loop", "buckets"}
    /\ last'[s].ev \in {"pushed", "not_open", "send_error"}

\* C19: after a successful query, if the connection is not open at the
\* pre-push check the session sends no snapshot, goes to Closed (from where
\* it takes no further step: no query, no message) and is deregistered; a
\* snapshot is sent only in a step whose check found the connection open.
C19_NoPushWhenNotOpen ==
    [][\A s \in Sessions :
        /\ (PushStep(s) /\ conn[s] # "CONNECTED") =>
              /\ last'[s].ev = "not_open"
              /\ pc'[s] = "closed"
              /\ out'[s] = <<>>
              /\ \A k \in Kinds : s \notin Range(active_connections'[k])
        /\ (out'[s] # out[s] /\ \E m \in Range(out'[s]) : m.type = "snapshot") =>
              PushStep(s) /\ conn[s] = "CONNECTED"
        /\ pc[s] = "closed" =>
              /\ pc'[s] = "closed"
              /\ out'[s] = out[s] /\ qry'[s] = qry[s] /\ last'[s] = last[s]
      ]_vars

\* an hourly session whose connection went away during its bucket queries
\* has left at the pre-push check
C19_Witness ==
    \E s \in Sessions :
        /\ kind[s] = "hourly"
        /\ pc[s] = "closed" /\ last[s].ev = "not_open"
        /\ out[s] = <<>> /\ qry[s] = NoParams
        /\ ~Registered(s)

\* the step of s that consumes an inbound message the session cannot use
BadStep(s) == pc[s] \in {"awaiting", "wait"} /\ last'[s].ev = "bad"

\* C20: an inbound message that is not valid JSON, or that is not a
\* heartbeat and lacks a parsable start or end time, consumed in
\* AwaitingParams or in Streaming, moves the session to Closed: nothing is
\* sent in that step or after it, no query is issued after it, and the
\* session is deregistered.
C20_BadMessageCloses ==
    [][\A s \in Sessions :
        /\ (/\ pc[s] \in {"awaiting", "wait"}
            /\ last'[s] # last[s]
            /\ \/ last'[s].msg.type = "bad"
               \/ pc[s] = "awaiting" /\ last'[s].msg.type = "heartbeat") =>
              BadStep(s)
        /\ BadStep(s) =>
              /\ pc'[s] = "closed"
              /\ out'[s] = <<>>
              /\ qry'[s] = NoParams
              /\ params'[s] = params[s]
              /\ \A k \in Kinds : s \notin Range(active_connections'[k])
        /\ (pc[s] = "closed" /\ last[s].ev = "bad") =>
              /\ pc'[s] = "closed"
              /\ out'[s] = <<>> /\ qry'[s] = NoParams
      ]_vars

\* a session in Streaming (it holds parameters) consumed a bad message and
\* is closed and deregistered
C20_Witness ==
    \E s \in Sessions :
        /\ pc[s] = "closed" /\ last[s] = Event("bad", BadMsg)
        /\ params[s] # NoParams
        /\ out[s] = <<>>
        /\ ~Registered(s)

\* C18: for window.start <= window.end: with now absent the window is
\* historical and the effective end is window.end; with 0 <= now -
\* window.end <= 5 minutes it is live and the effective end is
\* max(window.start, now), which is now; with now - window.end > 5 minutes
\* it is historical and the effective end is window.end.  The effective end
\* is the upper bound of the query and the end of the operating-time basis.
C18_ResolveAtOrAfterEnd ==
    (/\ Computed
     /\ req.start_time <= req.end_time
     /\ req.current_time = None \/ req.current_time >= req.end_time) =>
        LET delta == req.current_time - req.end_time
            effectiveEnd ==
                IF req.current_time # None /\ delta <= FiveMinutes
                THEN req.current_time ELSE req.end_time
        IN /\ effectiveEnd = IF req.current_time # None /\ delta <= FiveMinutes
                             THEN Max(req.start_time, req.current_time)
                             ELSE req.end_time
           /\ res.final_query_end_time = effectiveEnd
           /\ res.actual_end_time = effectiveEnd
           /\ res.operation_time =
                  Max(effectiveEnd - req.start_time
                      - calculate_break_time(req.start_time, effectiveEnd,
                                             req.working_mode), 0)
           /\ delta = 240 => res.actual_end_time = req.end_time + 240
           /\ delta = 360 => res.actual_end_time = req.end_time

\* 09:30-10:30 asked at 10:36: historical, the basis is the hour less the
\* break 10:00-10:15
C18_Witness ==
    /\ stage = "computed"
    /\ req.start_time = HM(9, 30) /\ req.end_time = HM(10, 30)
    /\ req.current_time = HM(10, 36)
    /\ res.final_query_end_time = HM(10, 30)
    /\ res.actual_end_time = HM(10, 30)
    /\ res.operation_time = 45 * 60

(***************************************************************************)
(* Session protocol: the first message                                     *)
(***************************************************************************)
\* the step of s that consumes the first inbound message as parameters
InitStep(s) == pc[s] = "awaiting" /\ last'[s].ev = "init"

\* C21: before its first inbound message a session has issued no query and
\* sent nothing; it enters Streaming only from AwaitingParams, in the step
\* that consumes one parameter message, and that step sends nothing and
\* issues no query; the first query uses that message's window and mode
\* (mode1 when the message has none).
C21_NothingBeforeFirstMessage ==
    [][\A s \in Sessions :
        /\ pc[s] \in {"idle", "awaiting"} =>
              /\ out[s] = <<>> /\ qry[s] = NoParams /\ params[s] = NoParams
              /\ out'[s] = <<>> /\ qry'[s] = NoParams
        /\ (pc[s] \notin Streaming /\ pc'[s] \in Streaming) =>
              /\ InitStep(s)
              /\ last'[s].msg.type = "params"
              /\ pc'[s] = "loop"
              /\ params'[s] = _parse_ws_params(last'[s].msg)
        /\ (QueryStep(s) /\ last[s].ev = "init" /\ pc'[s] # "closed") =>
              /\ qry'[s] = _parse_ws_params(last[s].msg)
              /\ qry'[s].window = last[s].msg.window
              /\ qry'[s].mode = IF last[s].msg.mode = Absent
                                THEN "mode1" ELSE last[s].msg.mode
      ]_vars

\* a session whose first message asked for window 2 in mode2 has entered
\* Streaming: it holds those parameters, has queried nothing and sent nothing
C21_Witness ==
    \E s \in Sessions :
        /\ pc[s] = "loop"
        /\ last[s] = Event("init", ParamMsgFor(2, "mode2", NoUnit))
        /\ params[s] = [window |-> 2, mode |-> "mode2"]
        /\ qry[s] = NoParams /\ out[s] = <<>>

(***************************************************************************)
(* The two channels: properties                                            *)
(***************************************************************************)
\* the protocol state a control point belongs to
StateOf(p) ==
    CASE p = "idle" -> "Connecting"
      [] p = "awaiting" -> "AwaitingParams"
      [] p \in Streaming -> "Streaming"
      [] OTHER -> "Closed"
KindsOf(msgs) == [i \in 1..Len(msgs) |-> msgs[i].type]
\* both sessions have consumed the same inputs and the hourly session is not
\* in the middle of an iteration
InStep == drive.turn = 1 /\ pc[HourlySession] # "buckets"

LiveBreakdown ==
    hrs.caller = "ws" /\ hrs.is_live_data /\ hrs.stage \in {"loop", "done"}

\* C23: in the hourly channel, for a live window, every returned bucket
\* starts on a calendar hour and ends no later than now; the bucket whose
\* one-hour span has now strictly inside it ends at now and is the last
\* bucket of the breakdown; every other returned bucket is exactly one hour
\* long.
C23_LiveEdgeTruncated ==
    LiveBreakdown =>
        LET hd == hrs.hourly_data
            now == hrs.current_time
        IN \A i \in 1..Len(hd) :
              /\ hd[i].hour_end <= now
              /\ hd[i].hour_start % SecondsPerHour = 0
              /\ IF hd[i].hour_start < now /\ now < hd[i].hour_start + SecondsPerHour
                 THEN /\ hd[i].hour_end = now
                      /\ i = Len(hd)
                      /\ hrs.stage = "done"
                 ELSE hd[i].hour_end - hd[i].hour_start = SecondsPerHour

\* 10:00-12:30 pushed at 12:28: two full hours and the bucket [12:00,12:28)
C23_Witness ==
    /\ LiveBreakdown /\ hrs.stage = "done"
    /\ hrs.end_time = HM(12, 30) /\ hrs.current_time = HM(12, 28)
    /\ Boundaries(hrs.hourly_data) = << <<HM(10, 0), HM(11, 0)>>,
                                        <<HM(11, 0), HM(12, 0)>>,
                                        <<HM(12, 0), HM(12, 28)>> >>

\* the buckets of [from, to) when no query fails: whole hours from `from`,
\* the last one cut at `to`
RECURSIVE HourPartition(_, _)
HourPartition(from, to) ==
    IF from >= to THEN <<>>
    ELSE << <<from, Min(from + SecondsPerHour, to)>> >>
         \o HourPartition(from + SecondsPerHour, to)

\* the buckets the breakdown h returns when none of its queries fails
FailureFree(h) ==
    HourPartition(FloorToHour(h.start_time),
                  IF h.caller = "ws" /\ Abs(h.current_time - h.end_time) <= FiveMinutes
                  THEN h.current_time ELSE h.end_time)

\* s is a subsequence of t
RECURSIVE IsSubSeq(_, _)
IsSubSeq(s, t) ==
    IF s = <<>> THEN TRUE
    ELSE IF t = <<>> THEN FALSE
    ELSE IF Head(s) = Head(t) THEN IsSubSeq(Tail(s), Tail(t))
    ELSE IsSubSeq(s, Tail(t))

\* the step of a breakdown whose bucket query fails or times out
SkipStep == hrs.stage = "loop" /\ hrs'.skipped = hrs.skipped + 1

\* C24: in both hourly breakdowns a bucket query that fails or times out
\* adds nothing to the returned list and ends neither the loop nor the
\* request: the k-th query of a breakdown is always for the k-th bucket of
\* the failure-free partition, the breakdown finishes after one query per
\* bucket of that partition, and it returns exactly the buckets whose query
\* succeeded, with their failure-free boundaries.  In the hourly channel the
\* skip changes nothing of the session, which stays in Streaming and ends
\* the iteration with the pre-push check and a snapshot, not an error.
C24_SkippedBucket ==
    [][/\ SkipStep =>
             /\ hrs'.hourly_data = hrs.hourly_data
             /\ hrs'.stage \in {"loop", "done"}
             /\ sessionVars' = sessionVars
             /\ hrs.caller = "ws" => StateOf(pc'[HourlySession]) = "Streaming"
       /\ hrs'.stage \in {"loop", "done"} =>
             /\ hrs'.queries <= Len(FailureFree(hrs'))
             /\ Len(hrs'.hourly_data) = hrs'.queries - hrs'.skipped
             /\ IsSubSeq(Boundaries(hrs'.hourly_data),
                         SubSeq(FailureFree(hrs'), 1, hrs'.queries))
       /\ hrs'.stage = "loop" =>
             <<hrs'.current_hour, HourEnd(hrs')>>
                 = FailureFree(hrs')[hrs'.queries + 1]
       /\ hrs'.stage = "done" => hrs'.queries = Len(FailureFree(hrs'))
       /\ (/\ pc[HourlySession] = "buckets"
           /\ pc'[HourlySession] # "buckets"
           /\ hrs.skipped > 0) =>
             /\ \A m \in Range(out'[HourlySession]) : m.type # "error"
             /\ IF conn[HourlySession] = "CONNECTED" /\ drive.ev.ok
                THEN /\ pc'[HourlySession] = "wait"
                     /\ out'[HourlySession] = <<Snapshot(params[HourlySession])>>
                ELSE /\ pc'[HourlySession] = "closed"
                     /\ last'[HourlySession].ev \in {"not_open", "send_error"}
      ]_vars

\* the hourly session has pushed the breakdown of 10:00-12:30 in which the
\* query of [11:00,12:00) failed: the other two buckets are returned
C24_Witness ==
    /\ pc[HourlySession] = "wait"
    /\ out[HourlySession] = <<Snapshot(params[HourlySession])>>
    /\ hrs.stage = "done" /\ hrs.caller = "ws" /\ hrs.skipped = 1
    /\ hrs.current_time > hrs.end_time + FiveMinutes
    /\ Boundaries(hrs.hourly_data) = << <<HM(10, 0), HM(11, 0)>>,
                                        <<HM(12, 0), HM(12, 30)>> >>

C26_BreakMonotone ==
    /\ brk.call \in {"mode", "widen"} => brk.total >= 0
    /\ brk.call = "widen" =>
          /\ brk.wider.total >= 0
          /\ (/\ brk.wider.start_time <= brk.start_time
              /\ brk.start_time <= brk.end_time
              /\ brk.end_time <= brk.wider.end_time) =>
                brk.total <= brk.wider.total

\* mode2 over 00:05-00:30 of day 1 (25 minutes of break g) and over the
\* window from 00:00 of day 1 to 12:00 of day 2 that contains it
C26_Witness ==
    /\ brk.call = "widen" /\ brk.working_mode = "mode2"
    /\ brk.start_time = SecondsPerDay + HM(0, 5)
    /\ brk.end_time = SecondsPerDay + HM(0, 30)
    /\ brk.total = 1500
    /\ brk.wider.start_time = SecondsPerDay + HM(0, 0)
    /\ brk.wider.end_time = 2 * SecondsPerDay + HM(12, 0)
    /\ brk.wider.total > brk.total

(***************************************************************************)
(* Metrics: the range of the quality values                                *)
(***************************************************************************)
\* 0 <= q <= 1 for a ratio q
InUnitInterval(q) == q.d > 0 /\ 0 <= q.n /\ q.n <= q.d

\* quality q derived from the counts success and fail is in [0, 1] when
\* their sum is > 0 and exactly 0 when it is 0
QualityInRange(q, success, fail) ==
    /\ success + fail > 0 => InUnitInterval(q)
    /\ success + fail = 0 => q = Zero

\* the row-level, unit-level, bucket-level and window-level quality values
\* the callers derive from the rows of the request, with their counts
QualityValues ==
    {<<res.models[i].quality, req.rows[i].success, req.rows[i].fail>> :
        i \in 1..Len(res.models)}
    \cup {<<UnitEntry(res.models).quality,
            SumField(res.models, "success_qty"), SumField(res.models, "fail_qty")>>,
          <<HourEntry(req.start_time, req.end_time, res.models,
                      req.working_mode).quality,
            SumField(res.models, "success_qty"), SumField(res.models, "fail_qty")>>,
          <<TotalQuality(res.models),
            SumField(res.models, "success_qty"), SumField(res.models, "fail_qty")>>}

\* no count of the request is negative
CountsValid ==
    \A i \in 1..Len(req.rows) : req.rows[i].success >= 0 /\ req.rows[i].fail >= 0

Named(raw) == SelectSeq(raw, LAMBDA t : t # Blank)

\* C28: a report request whose unit list is empty after splitting and
\* trimming is rejected in its first step with status 400, which is not the
\* status 500 of an internal error, whether or not its times can be parsed;
\* the rejected request has parsed no time, queried no unit and built no
\* unit entry and no summary.
C28_EmptyUnitList ==
    /\ (rpt.stage # "idle" /\ Named(rpt.raw_units) = <<>>) => rpt.stage = "rejected"
    /\ rpt.stage = "rejected" =>
          /\ Named(rpt.raw_units) = <<>>
          /\ rpt.status = 400
          /\ rpt = [NoReport EXCEPT !.stage = "rejected", !.status = 400,
                                    !.raw_units = rpt.raw_units,
                                    !.times_ok = rpt.times_ok]
          /\ rpt.log = <<>> /\ rpt.unit_data = <<>> /\ rpt.summary = NoSummary
          /\ rpt.start_time = NoReport.start_time /\ rpt.end_time = NoReport.end_time
    /\ rpt.stage = "failed" =>
          /\ rpt.status = 500
          /\ Named(rpt.raw_units) # <<>>
          /\ rpt.log = <<>>

\* a request for "," with times that cannot be parsed has been rejected
\* with status 400
C28_Witness ==
    /\ rpt.stage = "rejected" /\ rpt.status = 400
    /\ rpt.raw_units = <<Blank, Blank>>
    /\ ~rpt.times_ok
    /\ rpt.log = <<>>

\* the end the bucket loop of breakdown h runs to
EffectiveEnd(h) ==
    IF h.caller = "ws" /\ Abs(h.current_time - h.end_time) <= FiveMinutes
    THEN h.current_time ELSE h.end_time

\* ceil(a / b) for b > 0
Ceil(a, b) == (a + b - 1) \div b

\* the queries session s is awaiting: its main query, or the query of the
\* bucket at the cursor
InFlight(s) ==
    (IF pc[s] = "loop" THEN 1 ELSE 0)
    + (IF pc[s] = "buckets" /\ hrs.stage = "loop" THEN 1 ELSE 0)

\* C29: every pass of the bucket loop, whether its query succeeds or is
\* skipped and also at the live edge, issues one query and moves the cursor
\* strictly forward; while the loop runs the cursor is before the effective
\* end, the number of queries never exceeds ceil((effectiveEnd -
\* floor_to_hour(window.start)) / 1 hour) and equals it when the loop is
\* over, so the loop cannot run for more passes than that; a session awaits
\* at most one query at a time.
C29_BreakdownTerminates ==
    [][/\ (hrs.stage = "loop" /\ hrs' # hrs) =>
             /\ hrs'.current_hour > hrs.current_hour
             /\ hrs'.queries = hrs.queries + 1
             /\ hrs'.stage \in {"loop", "done"}
       /\ hrs'.stage \in {"loop", "done"} =>
             hrs'.queries <= Ceil(EffectiveEnd(hrs') - FloorToHour(hrs'.start_time),
                                  SecondsPerHour)
       /\ hrs'.stage = "loop" => hrs'.current_hour < EffectiveEnd(hrs')
       /\ hrs'.stage = "done" =>
             /\ hrs'.current_hour >= EffectiveEnd(hrs')
             /\ hrs'.queries = Ceil(EffectiveEnd(hrs') - FloorToHour(hrs'.start_time),
                                    SecondsPerHour)
       /\ \A s \in Sessions : InFlight(s)' <= 1
      ]_vars

\* the channel's breakdown of 10:00-12:30 at 12:28 is over after three
\* queries, one of them skipped, the cursor past the live edge
C29_Witness ==
    /\ hrs.stage = "done" /\ hrs.caller = "ws" /\ hrs.is_live_data
    /\ hrs.start_time = HM(10, 0) /\ hrs.current_time = HM(12, 28)
    /\ hrs.queries = 3 /\ hrs.skipped = 1
    /\ hrs.current_hour = HM(13, 0)
    /\ pc[HourlySession] = "buckets"

(***************************************************************************)
(* Session protocol: the working mode of a parameter message               *)
(***************************************************************************)
\* the step of s that consumes a parameter message, first or later
ParamStep(s) == InitStep(s) \/ UpdateStep(s)

\* C30: a step that consumes a parameter message, the first one or an
\* update, sets the session's mode to the message's working mode, and to
\* mode1 when the message carries none, whatever the mode was before; no
\* other step (a heartbeat included) changes the mode.  So the mode is
\* always that of the last consumed parameter message, or mode1 if that
\* message had none.
C30_ModeDefaults ==
    [][\A s \in Sessions :
        /\ ParamStep(s) =>
              /\ last'[s].msg.type = "params"
              /\ params'[s].window = last'[s].msg.window
              /\ last'[s].msg.mode = Absent => params'[s].mode = "mode1"
              /\ last'[s].msg.mode # Absent => params'[s].mode = last'[s].msg.mode
        /\ ~ParamStep(s) => params'[s] = params[s]
      ]_vars

\* an update for window 1 without a working mode has just been consumed:
\* the session is in mode1
C30_Witness ==
    \E s \in Sessions :
        /\ pc[s] = "loop"
        /\ last[s] = Event("update", ParamMsgFor(1, Absent, NoUnit))
        /\ params[s] = [window |-> 1, mode |-> "mode1"]

(***************************************************************************)
(* Operating time: properties                                              *)
(***************************************************************************)
\* the break codes of a mode, by position in its list
ModeIntervals(m) ==
    [k \in 1..Len(WORKING_MODE_BREAKS[m]) |-> SHIFT_BREAKS[WORKING_MODE_BREAKS[m][k]]]

\* within a day the intervals of a mode's breaks do not meet, and none of
\* them runs over midnight
DisjointInDay(m) ==
    LET iv == ModeIntervals(m)
    IN /\ \A k \in DOMAIN iv : 0 <= iv[k].start /\ iv[k].start < iv[k].end
                               /\ iv[k].end <= SecondsPerDay
       /\ \A j, k \in DOMAIN iv :
             j < k => (iv[j].end <= iv[k].start \/ iv[k].end <= iv[j].start)

\* the break seconds of the operating-time basis of the current request
BasisBreak ==
    calculate_break_time(req.start_time, res.actual_end_time, req.working_mode)

\* C31: within each working mode the breaks are pairwise disjoint within a
\* day, so for every window with start <= end and every mode the break
\* seconds are at most end - start; the operating seconds are therefore
\* exactly (effectiveEnd - start) - breakSeconds and never negative, and the
\* clamp max(..., 0) changes the value only for an inverted basis
\* (effectiveEnd < start), where the break seconds are 0 and the operating
\* seconds are 0.
C31_OperatingExact ==
    /\ \A m \in DOMAIN WORKING_MODE_BREAKS : DisjointInDay(m)
    /\ stage \in {"computed", "built"} =>
          LET start == req.start_time
              effectiveEnd == res.actual_end_time
          IN /\ req.start_time <= req.end_time =>
                   calculate_break_time(req.start_time, req.end_time,
                                        req.working_mode)
                       <= req.end_time - req.start_time
             /\ start <= effectiveEnd =>
                   /\ 0 <= BasisBreak
                   /\ BasisBreak <= effectiveEnd - start
                   /\ res.operation_time = (effectiveEnd - start) - BasisBreak
                   /\ res.operation_time >= 0
             /\ effectiveEnd < start =>
                   /\ BasisBreak = 0
                   /\ res.operation_time = 0
             /\ res.operation_time # (effectiveEnd - start) - BasisBreak =>
                   effectiveEnd < start

\* 00:00-00:30 of day 1 in mode2, without a clock: the window is break g and
\* nothing else, the break seconds equal the length of the window and the
\* operating seconds are 0 without the clamp
C31_Witness ==
    /\ stage = "computed"
    /\ req.working_mode = "mode2" /\ req.current_time = None
    /\ req.start_time = SecondsPerDay + HM(0, 0)
    /\ res.actual_end_time = SecondsPerDay + HM(0, 30)
    /\ BasisBreak = 1800
    /\ res.operation_time = 0

\* a basis that ends before it starts: 12:00 back to 10:05 asked past the
\* five minutes, so the requested end stands and the clamp gives 0
C31_InvertedReached ==
    /\ stage = "computed"
    /\ req.current_time # None
    /\ res.actual_end_time < req.start_time
    /\ (res.actual_end_time - req.start_time) - BasisBreak < 0
    /\ res.operation_time = 0

====
